---- MODULE Spec2Model ----
(***************************************************************************)
(* Model of the FP&A use case search engine                                *)
(* (src/fpa_use_case_finder/searcher.py, class UseCaseSearcher) over the    *)
(* read-only catalog of src/fpa_use_case_finder/use_cases.py.               *)
(*                                                                         *)
(* Strings are sequences of one-character strings, so that str.lower(),    *)
(* the substring test `a in b`, str.replace and str.split are computed,    *)
(* not assumed.  Relevance scores are Python floats that are sums of       *)
(* multiples of 0.5; they are held exactly as a count of halves            *)
(* (Pt(10) is 10.0, PtHalf(1) is 1.5).                                     *)
(***************************************************************************)
EXTENDS Integers, Sequences, FiniteSets, TLC

\* use_cases, keyword_index, category_index: the catalog and the two indexes
\*     of the engine (an attribute is None when absent, Some(value) otherwise)
\* call, result: the call a single caller has in progress and what it returned
\* seen: one earlier call with what it returned, kept for comparison
\* frames: the calls in progress when several callers share the engine
\* loop: the interactive command loop
VARIABLES use_cases, keyword_index, category_index, call, result, seen, frames, loop

vars == <<use_cases, keyword_index, category_index, call, result, seen, frames, loop>>

\* the engine and its catalog
engine == <<use_cases, keyword_index, category_index>>

(***************************************************************************)
(* Bounds of the model.                                                    *)
(***************************************************************************)
\* longest catalog built from arbitrary records of RecordPool
MaxRecords == 2
\* longest tags / tools_used list of a record handed to the scorer alone
MaxList == 2
\* largest limit (and smallest, negated) tried besides the default limit
MaxLimit == 2

(***************************************************************************)
(* Program constants.                                                      *)
(***************************************************************************)
\* search(..., limit: int = 10)
DefaultLimit == 10
\* get_similar_use_cases(..., limit: int = 5)
DefaultSimilarLimit == 5

\* a float that is a whole number n, in halves
Pt(n) == 2 * n
\* the float n + 0.5, in halves
PtHalf(n) == 2 * n + 1

(***************************************************************************)
(* Python str operations.                                                  *)
(***************************************************************************)
LowerChar(c) ==
    CASE c = "A" -> "a" [] c = "I" -> "i" [] c = "K" -> "k" [] c = "L" -> "l"
      [] c = "P" -> "p" [] c = "Q" -> "q" [] c = "S" -> "s" [] c = "B" -> "b"
      [] c = "U" -> "u" [] OTHER -> c

\* s.lower()
Lower(s) == [i \in 1..Len(s) |-> LowerChar(s[i])]

\* s.replace(old, new) for one-character old and new
Replace(s, old, new) == [i \in 1..Len(s) |-> IF s[i] = old THEN new ELSE s[i]]

\* needle in hay
Contains(hay, needle) ==
    \E i \in 0..(Len(hay) - Len(needle)) :
        SubSeq(hay, i + 1, i + Len(needle)) = needle

Whitespace == {" "}

RECURSIVE SplitFrom(_, _, _, _)
SplitFrom(s, i, cur, acc) ==
    IF i > Len(s)
    THEN IF cur = <<>> THEN acc ELSE Append(acc, cur)
    ELSE IF s[i] \in Whitespace
         THEN SplitFrom(s, i + 1, <<>>, IF cur = <<>> THEN acc ELSE Append(acc, cur))
         ELSE SplitFrom(s, i + 1, Append(cur, s[i]), acc)

\* s.split(): the maximal runs of non-whitespace characters, in order
Split(s) == SplitFrom(s, 1, <<>>, <<>>)

\* set(list)
ToSet(seq) == {seq[i] : i \in 1..Len(seq)}

\* x in list
InList(x, seq) == \E i \in 1..Len(seq) : seq[i] = x

(***************************************************************************)
(* Optional[T]: None is <<>>, a value v is <<v>>.                          *)
(***************************************************************************)
None == <<>>
Some(v) == <<v>>

(***************************************************************************)
(* Enumerations (categories.py).                                           *)
(***************************************************************************)
FPACategory ==
    {"budgeting", "forecasting", "variance_analysis", "financial_modeling",
     "reporting", "data_integration", "scenario_planning", "compliance",
     "automation", "excel_integration"}

ComplexityLevel == {"beginner", "intermediate", "advanced", "expert"}

(***************************************************************************)
(* The scorer: UseCaseSearcher._calculate_relevance.  A scorer state is    *)
(* the pair of locals (score, matched_fields); one operator per block of   *)
(* the method, applied in the order of the code.                           *)
(***************************************************************************)
AppendOnce(matched, name) ==
    IF InList(name, matched) THEN matched ELSE Append(matched, name)

\* faulty variant: the exact match compares with the title as written, not lowered
TitleStepCaseSensitive(uc, query, query_keywords, st) ==
    IF Contains(uc.title, query)
    THEN [score |-> st.score + Pt(10),
          matched_fields |-> Append(st.matched_fields, "title")]
    ELSE LET title_keywords == ToSet(Split(Lower(uc.title)))
             title_overlap == Cardinality(query_keywords \cap title_keywords)
         IN  IF title_overlap > 0
             THEN [score |-> st.score + title_overlap * Pt(3),
                   matched_fields |-> Append(st.matched_fields, "title")]
             ELSE st

\* lines 119-128
TitleStep(uc, query, query_keywords, st) ==
    IF Contains(Lower(uc.title), query)
    THEN [score |-> st.score + Pt(10),
          matched_fields |-> Append(st.matched_fields, "title")]
    ELSE LET title_keywords == ToSet(Split(Lower(uc.title)))
             title_overlap == Cardinality(query_keywords \cap title_keywords)
         IN  IF title_overlap > 0
             THEN [score |-> st.score + title_overlap * Pt(3),
                   matched_fields |-> Append(st.matched_fields, "title")]
             ELSE st

\* faulty variant: the token-overlap branch adds its score and forgets the mark
DescriptionStepNoMark(uc, query, query_keywords, st) ==
    IF Contains(Lower(uc.description), query)
    THEN [score |-> st.score + Pt(5),
          matched_fields |-> Append(st.matched_fields, "description")]
    ELSE LET desc_keywords == ToSet(Split(Lower(uc.description)))
             desc_overlap == Cardinality(query_keywords \cap desc_keywords)
         IN  [score |-> st.score + desc_overlap * PtHalf(1),
              matched_fields |-> st.matched_fields]

\* lines 130-140
DescriptionStep(uc, query, query_keywords, st) ==
    IF Contains(Lower(uc.description), query)
    THEN [score |-> st.score + Pt(5),
          matched_fields |-> Append(st.matched_fields, "description")]
    ELSE LET desc_keywords == ToSet(Split(Lower(uc.description)))
             desc_overlap == Cardinality(query_keywords \cap desc_keywords)
         IN  IF desc_overlap > 0
             THEN [score |-> st.score + desc_overlap * PtHalf(1),
                   matched_fields |-> AppendOnce(st.matched_fields, "description")]
             ELSE st

\* faulty variant: "tags" is appended for every matching tag
RECURSIVE TagsLoopMarkEach(_, _, _, _)
TagsLoopMarkEach(tags, i, query, st) ==
    IF i > Len(tags) THEN st
    ELSE IF Contains(query, Lower(tags[i])) \/ Contains(Lower(tags[i]), query)
         THEN TagsLoopMarkEach(tags, i + 1, query,
                               [score |-> st.score + Pt(4),
                                matched_fields |-> Append(st.matched_fields, "tags")])
         ELSE TagsLoopMarkEach(tags, i + 1, query, st)

\* lines 143-147: every tag is examined, no break
RECURSIVE TagsLoop(_, _, _, _)
TagsLoop(tags, i, query, st) ==
    IF i > Len(tags) THEN st
    ELSE IF Contains(query, Lower(tags[i])) \/ Contains(Lower(tags[i]), query)
         THEN TagsLoop(tags, i + 1, query,
                       [score |-> st.score + Pt(4),
                        matched_fields |-> AppendOnce(st.matched_fields, "tags")])
         ELSE TagsLoop(tags, i + 1, query, st)

TagsStep(uc, query, st) == TagsLoop(uc.tags, 1, query, st)

\* faulty variant: no break, every matching prompt adds 3.0
RECURSIVE PromptsLoopNoBreak(_, _, _, _)
PromptsLoopNoBreak(prompts, i, query, st) ==
    IF i > Len(prompts) THEN st
    ELSE IF Contains(Lower(prompts[i]), query)
         THEN PromptsLoopNoBreak(prompts, i + 1, query,
                                 [score |-> st.score + Pt(3),
                                  matched_fields |-> AppendOnce(st.matched_fields, "prompts")])
         ELSE PromptsLoopNoBreak(prompts, i + 1, query, st)

\* lines 150-155: break after the first matching prompt
RECURSIVE PromptsLoop(_, _, _, _)
PromptsLoop(prompts, i, query, st) ==
    IF i > Len(prompts) THEN st
    ELSE IF Contains(Lower(prompts[i]), query)
         THEN [score |-> st.score + Pt(3),
               matched_fields |-> AppendOnce(st.matched_fields, "prompts")]
         ELSE PromptsLoop(prompts, i + 1, query, st)

PromptsStep(uc, query, st) == PromptsLoop(uc.example_prompts, 1, query, st)

\* lines 158-162: every tool is examined, no break
RECURSIVE ToolsLoop(_, _, _, _)
ToolsLoop(tools, i, query, st) ==
    IF i > Len(tools) THEN st
    ELSE IF Contains(query, Lower(tools[i])) \/ Contains(Lower(tools[i]), query)
         THEN ToolsLoop(tools, i + 1, query,
                        [score |-> st.score + Pt(2),
                         matched_fields |-> AppendOnce(st.matched_fields, "tools")])
         ELSE ToolsLoop(tools, i + 1, query, st)

ToolsStep(uc, query, st) == ToolsLoop(uc.tools_used, 1, query, st)

\* lines 165-170: break after the first matching benefit
RECURSIVE BenefitsLoop(_, _, _, _)
BenefitsLoop(benefits, i, query, st) ==
    IF i > Len(benefits) THEN st
    ELSE IF Contains(Lower(benefits[i]), query)
         THEN [score |-> st.score + PtHalf(1),
               matched_fields |-> AppendOnce(st.matched_fields, "benefits")]
         ELSE BenefitsLoop(benefits, i + 1, query, st)

BenefitsStep(uc, query, st) == BenefitsLoop(uc.benefits, 1, query, st)

\* lines 116-117
ScorerStart == [score |-> 0, matched_fields |-> <<>>]

\* the scorer state after the first n blocks of the method (n in 0..6)
ScorerAfter(n, uc, query, query_keywords) ==
    LET s1 == TitleStep(uc, query, query_keywords, ScorerStart)
        s2 == DescriptionStep(uc, query, query_keywords, s1)
        s3 == TagsStep(uc, query, s2)
        s4 == PromptsStep(uc, query, s3)
        s5 == ToolsStep(uc, query, s4)
        s6 == BenefitsStep(uc, query, s5)
    IN  CASE n = 0 -> ScorerStart [] n = 1 -> s1 [] n = 2 -> s2 [] n = 3 -> s3
          [] n = 4 -> s4 [] n = 5 -> s5 [] OTHER -> s6

_calculate_relevance(uc, query, query_keywords) ==
    ScorerAfter(6, uc, query, query_keywords)

\* search, lines 82-83
QueryLower(query) == Lower(query)
QueryKeywords(query) ==
    ToSet(Split(Replace(Replace(Lower(query), ",", " "), ".", " ")))

(***************************************************************************)
(* UseCaseSearcher.search.                                                 *)
(***************************************************************************)
\* Python truth value of the `categories` argument: None and [] are false
CategoriesGiven(categories) == categories # None /\ categories[1] # <<>>

\* Python truth value of the `complexity` argument: an Enum member is true
ComplexityGiven(complexity) == complexity # None

\* faulty variant: a record is skipped only when both filters reject it
FilteredOutBoth(uc, categories, complexity) ==
    /\ CategoriesGiven(categories) /\ ~InList(uc.category, categories[1])
    /\ ComplexityGiven(complexity) /\ uc.complexity # complexity[1]

\* lines 88-92: the two `continue` tests
FilteredOut(uc, categories, complexity) ==
    \/ CategoriesGiven(categories) /\ ~InList(uc.category, categories[1])
    \/ ComplexityGiven(complexity) /\ uc.complexity # complexity[1]

\* faulty variant: records that score 0 are kept too
KeepNonNegative(score) == score >= 0

\* line 97
Keep(score) == score > 0

\* faulty variant: only the records keyword_index lists under a keyword of the
\* query are scored
RECURSIVE SearchLoopIndexed(_, _, _, _, _, _, _)
SearchLoopIndexed(catalog, i, query_lower, query_keywords, categories, complexity, results) ==
    IF i > Len(catalog) THEN results
    ELSE LET uc == catalog[i]
             scored == _calculate_relevance(uc, query_lower, query_keywords)
             listed == IF keyword_index = None THEN {}
                       ELSE UNION {{keyword_index[1][k][j] :
                                       j \in 1..Len(keyword_index[1][k])} :
                                   k \in query_keywords \cap DOMAIN keyword_index[1]}
         IN  IF uc.id \notin listed \/ FilteredOut(uc, categories, complexity)
             THEN SearchLoopIndexed(catalog, i + 1, query_lower, query_keywords,
                                    categories, complexity, results)
             ELSE IF Keep(scored.score)
             THEN SearchLoopIndexed(catalog, i + 1, query_lower, query_keywords,
                                    categories, complexity,
                                    Append(results,
                                           [use_case |-> uc,
                                            relevance_score |-> scored.score,
                                            matched_fields |-> scored.matched_fields]))
             ELSE SearchLoopIndexed(catalog, i + 1, query_lower, query_keywords,
                                    categories, complexity, results)

\* lines 87-102: the loop over the catalog, from record i on
RECURSIVE SearchLoop(_, _, _, _, _, _, _)
SearchLoop(catalog, i, query_lower, query_keywords, categories, complexity, results) ==
    IF i > Len(catalog) THEN results
    ELSE LET uc == catalog[i]
             scored == _calculate_relevance(uc, query_lower, query_keywords)
         IN  IF FilteredOut(uc, categories, complexity)
             THEN SearchLoop(catalog, i + 1, query_lower, query_keywords,
                             categories, complexity, results)
             ELSE IF Keep(scored.score)
             THEN SearchLoop(catalog, i + 1, query_lower, query_keywords,
                             categories, complexity,
                             Append(results,
                                    [use_case |-> uc,
                                     relevance_score |-> scored.score,
                                     matched_fields |-> scored.matched_fields]))
             ELSE SearchLoop(catalog, i + 1, query_lower, query_keywords,
                             categories, complexity, results)

\* faulty variant: ties are reversed, as by an ascending sort followed by a reversal
InsertResultTiesReversed(sorted, x) ==
    LET k == Cardinality({j \in 1..Len(sorted) :
                             sorted[j].relevance_score > x.relevance_score})
    IN  SubSeq(sorted, 1, k) \o <<x>> \o SubSeq(sorted, k + 1, Len(sorted))

\* list.sort(key=..., reverse=True) is stable: an element goes behind every
\* element of the sorted prefix whose key is at least its own
InsertResult(sorted, x) ==
    LET k == Cardinality({j \in 1..Len(sorted) :
                             sorted[j].relevance_score >= x.relevance_score})
    IN  SubSeq(sorted, 1, k) \o <<x>> \o SubSeq(sorted, k + 1, Len(sorted))

\* line 105
RECURSIVE SortResults(_)
SortResults(results) ==
    IF results = <<>> THEN <<>>
    ELSE InsertResult(SortResults(SubSeq(results, 1, Len(results) - 1)),
                      results[Len(results)])

\* faulty variant: the slice is forgotten
SliceAll(seq, limit) == seq

\* seq[:limit]: the first limit elements, or all but the last -limit ones
Slice(seq, limit) ==
    IF limit >= 0
    THEN SubSeq(seq, 1, IF limit < Len(seq) THEN limit ELSE Len(seq))
    ELSE SubSeq(seq, 1, Len(seq) + limit)

\* lines 82-107
search(catalog, query, categories, complexity, limit) ==
    Slice(SortResults(SearchLoop(catalog, 1, QueryLower(query),
                                 QueryKeywords(query), categories, complexity,
                                 <<>>)),
          limit)

(***************************************************************************)
(* UseCaseDatabase.get_by_id and UseCaseSearcher.get_similar_use_cases.    *)
(***************************************************************************)
\* faulty variant: the loop variable is returned when no record has the id
RECURSIVE GetByIdFromLast(_, _, _)
GetByIdFromLast(catalog, i, use_case_id) ==
    IF i > Len(catalog)
    THEN IF catalog = <<>> THEN None ELSE Some(catalog[Len(catalog)])
    ELSE IF catalog[i].id = use_case_id THEN Some(catalog[i])
    ELSE GetByIdFromLast(catalog, i + 1, use_case_id)

\* use_cases.py lines 862-867: the first record with the id, or None
RECURSIVE GetByIdFrom(_, _, _)
GetByIdFrom(catalog, i, use_case_id) ==
    IF i > Len(catalog) THEN None
    ELSE IF catalog[i].id = use_case_id THEN Some(catalog[i])
    ELSE GetByIdFrom(catalog, i + 1, use_case_id)

get_by_id(catalog, use_case_id) == GetByIdFrom(catalog, 1, use_case_id)

\* faulty variant: every tool of the record counts, common or not
SimilarityScoreOwnTools(uc, source_uc) ==
    (IF uc.category = source_uc.category THEN Pt(5) ELSE 0)
    + Cardinality(ToSet(uc.tags) \cap ToSet(source_uc.tags)) * Pt(2)
    + (IF uc.complexity = source_uc.complexity THEN Pt(1) ELSE 0)
    + Cardinality(ToSet(uc.tools_used)) * PtHalf(1)

\* faulty variant: the complexity bonus is left out
SimilarityScoreNoComplexity(uc, source_uc) ==
    (IF uc.category = source_uc.category THEN Pt(5) ELSE 0)
    + Cardinality(ToSet(uc.tags) \cap ToSet(source_uc.tags)) * Pt(2)
    + Cardinality(ToSet(uc.tools_used) \cap ToSet(source_uc.tools_used)) * PtHalf(1)

\* lines 186-202
SimilarityScore(uc, source_uc) ==
    (IF uc.category = source_uc.category THEN Pt(5) ELSE 0)
    + Cardinality(ToSet(uc.tags) \cap ToSet(source_uc.tags)) * Pt(2)
    + (IF uc.complexity = source_uc.complexity THEN Pt(1) ELSE 0)
    + Cardinality(ToSet(uc.tools_used) \cap ToSet(source_uc.tools_used)) * PtHalf(1)

\* faulty variant: the source record is not skipped
RECURSIVE SimilarLoopNoSkip(_, _, _, _, _)
SimilarLoopNoSkip(catalog, i, use_case_id, source_uc, scores) ==
    IF i > Len(catalog) THEN scores
    ELSE IF SimilarityScore(catalog[i], source_uc) > 0
         THEN SimilarLoopNoSkip(catalog, i + 1, use_case_id, source_uc,
                                Append(scores, <<catalog[i],
                                                 SimilarityScore(catalog[i], source_uc)>>))
         ELSE SimilarLoopNoSkip(catalog, i + 1, use_case_id, source_uc, scores)

\* lines 182-205: the loop over the catalog, from record i on
RECURSIVE SimilarLoop(_, _, _, _, _)
SimilarLoop(catalog, i, use_case_id, source_uc, scores) ==
    IF i > Len(catalog) THEN scores
    ELSE IF catalog[i].id = use_case_id
         THEN SimilarLoop(catalog, i + 1, use_case_id, source_uc, scores)
         ELSE IF SimilarityScore(catalog[i], source_uc) > 0
         THEN SimilarLoop(catalog, i + 1, use_case_id, source_uc,
                          Append(scores, <<catalog[i],
                                           SimilarityScore(catalog[i], source_uc)>>))
         ELSE SimilarLoop(catalog, i + 1, use_case_id, source_uc, scores)

\* faulty variant: the sort is ascending
InsertScoreAscending(sorted, x) ==
    LET k == Cardinality({j \in 1..Len(sorted) : sorted[j][2] <= x[2]})
    IN  SubSeq(sorted, 1, k) \o <<x>> \o SubSeq(sorted, k + 1, Len(sorted))

InsertScore(sorted, x) ==
    LET k == Cardinality({j \in 1..Len(sorted) : sorted[j][2] >= x[2]})
    IN  SubSeq(sorted, 1, k) \o <<x>> \o SubSeq(sorted, k + 1, Len(sorted))

\* line 208
RECURSIVE SortScores(_)
SortScores(scores) ==
    IF scores = <<>> THEN <<>>
    ELSE InsertScore(SortScores(SubSeq(scores, 1, Len(scores) - 1)),
                     scores[Len(scores)])

\* line 210
RecordsOf(scores) == [k \in 1..Len(scores) |-> scores[k][1]]

\* what a call leaves when it raises the exception e
Raised(e) == <<"raised", e>>

\* faulty variant: an unknown id raises
get_similar_use_cases_raising(catalog, use_case_id, limit) ==
    LET source_uc == get_by_id(catalog, use_case_id)
    IN  IF source_uc = None THEN Raised("ValueError")
        ELSE RecordsOf(Slice(SortScores(SimilarLoop(catalog, 1, use_case_id,
                                                    source_uc[1], <<>>)),
                             limit))

\* lines 174-210
get_similar_use_cases(catalog, use_case_id, limit) ==
    LET source_uc == get_by_id(catalog, use_case_id)
    IN  IF source_uc = None THEN <<>>
        ELSE RecordsOf(Slice(SortScores(SimilarLoop(catalog, 1, use_case_id,
                                                    source_uc[1], <<>>)),
                             limit))

(***************************************************************************)
(* Texts.  Words are taken from the key phrases of search_by_prompt        *)
(* (searcher.py lines 283-289) so that one vocabulary serves every         *)
(* operation; upper-case letters, commas and periods exercise lower() and  *)
(* the two tokenizations.                                                  *)
(***************************************************************************)
sql == <<"s", "q", "l">>
api == <<"a", "p", "i">>
kpi == <<"k", "p", "i">>
SQL == <<"S", "Q", "L">>
API == <<"A", "P", "I">>
Kpi == <<"K", "p", "i">>
sp == <<" ">>
comma == <<",">>
period == <<".">>
empty == <<>>

\* the queries handed to search and to the scorer
Queries ==
    {empty, sql, API, api \o sp \o sql, kpi \o comma \o sql, <<"q">>,
     sql \o sp \o kpi}

\* every sequence over S of length at most n
ListsUpTo(S, n) == UNION {[1..k -> S] : k \in 0..n}

UseCase(id, title, description, category, complexity, benefits, example_prompts, tools_used, tags) ==
    [id |-> id, title |-> title, description |-> description,
     category |-> category, complexity |-> complexity, benefits |-> benefits,
     example_prompts |-> example_prompts, tools_used |-> tools_used,
     tags |-> tags]

\* the records handed to the scorer alone
ScorerTitles == {SQL \o sp \o api, Kpi, api \o comma \o sp \o sql, sql \o sp \o Kpi}
ScorerDescriptions == {<<"U">> \o sp \o SQL, kpi \o sp \o api \o period}
ScorerTagWords == {sql, API}
ScorerToolWords == {SQL, kpi}
ScorerPrompts == {<<>>, <<api \o sp \o sql \o sp \o kpi, API \o sp \o SQL>>}
ScorerBenefits == {<<>>, <<kpi, sql \o sp \o Kpi>>}

ScorerRecords ==
    {UseCase(<<"u">>, t, d, "budgeting", "beginner", b, p, tl, tg) :
        t \in ScorerTitles, d \in ScorerDescriptions, b \in ScorerBenefits,
        p \in ScorerPrompts, tl \in ListsUpTo(ScorerToolWords, MaxList),
        tg \in ListsUpTo(ScorerTagWords, MaxList)}

(***************************************************************************)
(* UseCaseSearcher.get_recommended_use_cases (searcher.py lines 212-270).  *)
(* A user context is a dict: each key the code reads is None when absent   *)
(* and Some(value) when present; `other` lists the keys it never reads.    *)
(***************************************************************************)
budget == <<"b", "u", "d", "g", "e", "t">>
forecast == <<"f", "o", "r", "e", "c", "a", "s", "t">>
analyst == <<"a", "n", "a", "l", "y", "s", "t">>
manager == <<"m", "a", "n", "a", "g", "e", "r">>
controller == <<"c", "o", "n", "t", "r", "o", "l", "l", "e", "r">>

\* faulty variant: variance analysis is mapped to two keywords
role_category_map_overlapping ==
    <<<<budget, <<"budgeting">>>>,
      <<forecast, <<"forecasting">>>>,
      <<analyst, <<"variance_analysis", "financial_modeling">>>>,
      <<manager, <<"reporting", "variance_analysis">>>>,
      <<controller, <<"compliance", "automation">>>>>>

\* lines 250-256, in the order of the dict
role_category_map ==
    <<<<budget, <<"budgeting">>>>,
      <<forecast, <<"forecasting">>>>,
      <<analyst, <<"variance_analysis", "financial_modeling">>>>,
      <<manager, <<"reporting", "scenario_planning">>>>,
      <<controller, <<"compliance", "automation">>>>>>

RecommendLimit == 10

\* line 234: any(tool.lower() in t.lower() for t in uc.tools_used)
ToolUsed(uc, tool) ==
    \E j \in 1..Len(uc.tools_used) : Contains(Lower(uc.tools_used[j]), Lower(tool))

\* lines 232-235: the loop over the tools of the context, from tool k on
RECURSIVE RecommendToolsLoop(_, _, _, _)
RecommendToolsLoop(uc, tools, k, score) ==
    IF k > Len(tools) THEN score
    ELSE RecommendToolsLoop(uc, tools, k + 1,
                            IF ToolUsed(uc, tools[k]) THEN score + Pt(3) ELSE score)

RecommendToolsStep(uc, user_context, score) ==
    IF user_context.tools # None
    THEN RecommendToolsLoop(uc, user_context.tools[1], 1, score)
    ELSE score

\* lines 243-245: the loop over the benefits, from benefit j on
RECURSIVE ChallengeBenefitsLoop(_, _, _, _)
ChallengeBenefitsLoop(uc, challenge_lower, j, score) ==
    IF j > Len(uc.benefits) THEN score
    ELSE ChallengeBenefitsLoop(uc, challenge_lower, j + 1,
                               IF Contains(Lower(uc.benefits[j]), challenge_lower)
                               THEN score + Pt(2) ELSE score)

\* faulty variant: the benefits are read only for a challenge that is in the
\* description
ChallengeStepNested(uc, challenge, score) ==
    IF Contains(Lower(uc.description), Lower(challenge))
    THEN ChallengeBenefitsLoop(uc, Lower(challenge), 1, score + Pt(4))
    ELSE score

\* lines 240-245: one challenge
ChallengeStep(uc, challenge, score) ==
    ChallengeBenefitsLoop(uc, Lower(challenge), 1,
                          IF Contains(Lower(uc.description), Lower(challenge))
                          THEN score + Pt(4) ELSE score)

\* lines 238-245: the loop over the challenges of the context
RECURSIVE ChallengesLoop(_, _, _, _)
ChallengesLoop(uc, challenges, k, score) ==
    IF k > Len(challenges) THEN score
    ELSE ChallengesLoop(uc, challenges, k + 1,
                        ChallengeStep(uc, challenges[k], score))

ChallengesStep(uc, user_context, score) ==
    IF user_context.challenges # None
    THEN ChallengesLoop(uc, user_context.challenges[1], 1, score)
    ELSE score

\* faulty variant: the keyword alone earns the role points
RECURSIVE RoleLoopAnyCategory(_, _, _, _)
RoleLoopAnyCategory(uc, role_lower, k, score) ==
    IF k > Len(role_category_map) THEN score
    ELSE RoleLoopAnyCategory(uc, role_lower, k + 1,
                             IF Contains(role_lower, role_category_map[k][1])
                             THEN score + Pt(5) ELSE score)

\* lines 257-259: the loop over the entries of role_category_map
RECURSIVE RoleLoop(_, _, _, _)
RoleLoop(uc, role_lower, k, score) ==
    IF k > Len(role_category_map) THEN score
    ELSE RoleLoop(uc, role_lower, k + 1,
                  IF /\ Contains(role_lower, role_category_map[k][1])
                     /\ InList(uc.category, role_category_map[k][2])
                  THEN score + Pt(5) ELSE score)

RoleStep(uc, user_context, score) ==
    IF user_context.role # None
    THEN RoleLoop(uc, Lower(user_context.role[1]), 1, score)
    ELSE score

\* faulty variant: a context without experience counts as a beginner's
ExperienceOfBeginner(user_context) ==
    IF user_context.experience = None THEN "beginner"
    ELSE user_context.experience[1]

\* line 262: user_context.get('experience', 'intermediate')
ExperienceOf(user_context) ==
    IF user_context.experience = None THEN "intermediate"
    ELSE user_context.experience[1]

\* lines 262-264
ExperienceStep(uc, user_context, score) ==
    IF /\ ExperienceOf(user_context) = "beginner"
       /\ InList(uc.complexity, <<"beginner", "intermediate">>)
    THEN score + Pt(2) ELSE score

\* lines 229-264: the score of one record
RecommendScore(uc, user_context) ==
    ExperienceStep(uc, user_context,
        RoleStep(uc, user_context,
            ChallengesStep(uc, user_context,
                RecommendToolsStep(uc, user_context, 0))))

\* lines 228-267: the loop over the catalog, from record i on
RECURSIVE RecommendLoop(_, _, _, _)
RecommendLoop(catalog, i, user_context, scores) ==
    IF i > Len(catalog) THEN scores
    ELSE IF RecommendScore(catalog[i], user_context) > 0
         THEN RecommendLoop(catalog, i + 1, user_context,
                            Append(scores, <<catalog[i],
                                             RecommendScore(catalog[i], user_context)>>))
         ELSE RecommendLoop(catalog, i + 1, user_context, scores)

\* lines 225-270
get_recommended_use_cases(catalog, user_context) ==
    RecordsOf(Slice(SortScores(RecommendLoop(catalog, 1, user_context, <<>>)),
                    RecommendLimit))

(***************************************************************************)
(* UseCaseSearcher.search_by_prompt (searcher.py lines 272-313).           *)
(***************************************************************************)
phrase_variance == <<"v", "a", "r", "i", "a", "n", "c", "e">>
phrase_model == <<"m", "o", "d", "e", "l">>
phrase_report == <<"r", "e", "p", "o", "r", "t">>
phrase_dashboard == <<"d", "a", "s", "h", "b", "o", "a", "r", "d">>
phrase_automate == <<"a", "u", "t", "o", "m", "a", "t", "e">>
phrase_excel == <<"e", "x", "c", "e", "l">>
phrase_dcf == <<"d", "c", "f">>
phrase_lbo == <<"l", "b", "o">>
phrase_consolidate == <<"c", "o", "n", "s", "o", "l", "i", "d", "a", "t", "e">>
phrase_scenario == <<"s", "c", "e", "n", "a", "r", "i", "o">>
phrase_sensitivity == <<"s", "e", "n", "s", "i", "t", "i", "v", "i", "t", "y">>
phrase_monte_carlo == <<"m", "o", "n", "t", "e", " ", "c", "a", "r", "l", "o">>
phrase_cash_flow == <<"c", "a", "s", "h", " ", "f", "l", "o", "w">>
phrase_revenue == <<"r", "e", "v", "e", "n", "u", "e">>
phrase_expense == <<"e", "x", "p", "e", "n", "s", "e">>
phrase_audit == <<"a", "u", "d", "i", "t">>
phrase_compliance == <<"c", "o", "m", "p", "l", "i", "a", "n", "c", "e">>
phrase_sox == <<"s", "o", "x">>
phrase_erp == <<"e", "r", "p">>
phrase_integration == <<"i", "n", "t", "e", "g", "r", "a", "t", "i", "o", "n">>
phrase_close == <<"c", "l", "o", "s", "e">>
phrase_month_end == <<"m", "o", "n", "t", "h", "-", "e", "n", "d">>
phrase_vba == <<"v", "b", "a">>
phrase_python == <<"p", "y", "t", "h", "o", "n">>

\* lines 283-289, in the order of the list
key_phrases ==
    <<budget, forecast, phrase_variance, phrase_model,
      phrase_report, phrase_dashboard, phrase_automate, phrase_excel,
      phrase_dcf, phrase_lbo, phrase_consolidate, phrase_scenario,
      phrase_sensitivity, phrase_monte_carlo, phrase_cash_flow, phrase_revenue,
      phrase_expense, phrase_audit, phrase_compliance, phrase_sox,
      phrase_erp, phrase_integration, api, kpi,
      phrase_close, phrase_month_end, phrase_vba, phrase_python,
      sql>>

PhraseLimit == 5
PromptLimit == 10

\* faulty variant: the scan stops at the first phrase it finds
FoundPhrasesFirstOnly(task_description) ==
    LET found == SelectSeq(key_phrases,
                           LAMBDA q : Contains(Lower(task_description), q))
    IN  IF found = <<>> THEN <<>> ELSE <<found[1]>>

\* lines 291-292
FoundPhrases(task_description) ==
    SelectSeq(key_phrases, LAMBDA q : Contains(Lower(task_description), q))

\* faulty variant: the fallback search is cut like a phrase search
PromptFallbackLimited(catalog, task_description) ==
    search(catalog, task_description, None, None, PhraseLimit)

\* line 296
PromptFallback(catalog, task_description) ==
    search(catalog, task_description, None, None, DefaultLimit)

\* faulty variant: a later score replaces the earlier one
MergeResultOverwrite(combined_results, r) ==
    IF \E j \in 1..Len(combined_results) :
           combined_results[j].use_case.id = r.use_case.id
    THEN [j \in 1..Len(combined_results) |->
             IF combined_results[j].use_case.id = r.use_case.id
             THEN [combined_results[j] EXCEPT !.relevance_score = r.relevance_score]
             ELSE combined_results[j]]
    ELSE Append(combined_results, r)

\* faulty variant: the fields a later phrase matched are added to the entry
MergeResultJoinFields(combined_results, r) ==
    IF \E j \in 1..Len(combined_results) :
           combined_results[j].use_case.id = r.use_case.id
    THEN [j \in 1..Len(combined_results) |->
             IF combined_results[j].use_case.id = r.use_case.id
             THEN [combined_results[j] EXCEPT
                      !.relevance_score = @ + r.relevance_score,
                      !.matched_fields =
                          @ \o SelectSeq(r.matched_fields,
                                         LAMBDA f : ~InList(f, combined_results[j].matched_fields))]
             ELSE combined_results[j]]
    ELSE Append(combined_results, r)

\* faulty variant: every result is kept as an entry of its own
MergeResultAppend(combined_results, r) == Append(combined_results, r)

\* lines 305-308: one result of a phrase search enters the dict, whose entries
\* are kept in insertion order
MergeResult(combined_results, r) ==
    IF \E j \in 1..Len(combined_results) :
           combined_results[j].use_case.id = r.use_case.id
    THEN [j \in 1..Len(combined_results) |->
             IF combined_results[j].use_case.id = r.use_case.id
             THEN [combined_results[j] EXCEPT
                      !.relevance_score = @ + r.relevance_score]
             ELSE combined_results[j]]
    ELSE Append(combined_results, r)

\* lines 304-308: the loop over the results of one phrase, from result k on
RECURSIVE MergeLoop(_, _, _)
MergeLoop(combined_results, results, k) ==
    IF k > Len(results) THEN combined_results
    ELSE MergeLoop(MergeResult(combined_results, results[k]), results, k + 1)

\* lines 301-308: the loop over the found phrases, from phrase k on
RECURSIVE PhrasesLoop(_, _, _, _)
PhrasesLoop(catalog, found_phrases, k, combined_results) ==
    IF k > Len(found_phrases) THEN combined_results
    ELSE PhrasesLoop(catalog, found_phrases, k + 1,
                     MergeLoop(combined_results,
                               search(catalog, found_phrases[k], None, None,
                                      PhraseLimit),
                               1))

\* lines 272-313
search_by_prompt(catalog, task_description) ==
    IF FoundPhrases(task_description) = <<>>
    THEN PromptFallback(catalog, task_description)
    ELSE Slice(SortResults(PhrasesLoop(catalog, FoundPhrases(task_description),
                                       1, <<>>)),
               PromptLimit)

(***************************************************************************)
(* UseCaseSearcher._extract_keywords and _build_index (searcher.py lines   *)
(* 28-61).  A dict is a function from its keys; the order of its keys,     *)
(* which follows the iteration order of a set, is not part of it.          *)
(***************************************************************************)
\* lines 54-58
stopwords ==
    {<<"a">>, <<"a", "n">>, <<"t", "h", "e">>,
     <<"a", "n", "d">>, <<"o", "r">>, <<"b", "u", "t">>,
     <<"i", "n">>, <<"o", "n">>, <<"a", "t">>,
     <<"t", "o">>, <<"f", "o", "r">>, <<"o", "f">>,
     <<"w", "i", "t", "h">>, <<"b", "y">>, <<"f", "r", "o", "m">>,
     <<"a", "s">>, <<"i", "s">>, <<"w", "a", "s">>,
     <<"a", "r", "e">>, <<"w", "e", "r", "e">>, <<"b", "e", "e", "n">>,
     <<"b", "e">>, <<"h", "a", "v", "e">>, <<"h", "a", "s">>,
     <<"h", "a", "d">>, <<"d", "o">>, <<"d", "o", "e", "s">>,
     <<"d", "i", "d">>, <<"w", "i", "l", "l">>, <<"w", "o", "u", "l", "d">>,
     <<"c", "o", "u", "l", "d">>, <<"s", "h", "o", "u", "l", "d">>, <<"m", "a", "y">>,
     <<"m", "i", "g", "h", "t">>, <<"c", "a", "n">>, <<"t", "h", "a", "t">>,
     <<"t", "h", "i", "s">>, <<"t", "h", "e", "s", "e">>, <<"t", "h", "o", "s", "e">>}

\* ' '.join(strings), from string k on
RECURSIVE JoinFrom(_, _)
JoinFrom(strings, k) ==
    IF k > Len(strings) THEN <<>>
    ELSE IF k = Len(strings) THEN strings[k]
    ELSE strings[k] \o <<" ">> \o JoinFrom(strings, k + 1)

\* lines 48-52
KeywordWords(use_case) ==
    Split(Replace(Replace(Lower(use_case.title \o <<" ">> \o use_case.description
                                \o <<" ">> \o JoinFrom(use_case.tags, 1)),
                          ",", " "),
                  ".", " "))

\* faulty variant: the stopwords are kept
_extract_keywords_with_stopwords(use_case) ==
    {word \in ToSet(KeywordWords(use_case)) : Len(word) > 2}

\* lines 46-61
_extract_keywords(use_case) ==
    {word \in ToSet(KeywordWords(use_case)) : Len(word) > 2 /\ word \notin stopwords}

EmptyDict == <<>>

\* lines 37-39 and 42-44: the id is appended to the list of each of the keys,
\* a key the dict does not have starting with the empty list
AppendUnder(index, keys, id) ==
    IF keys = {} THEN index
    ELSE [key \in (DOMAIN index) \cup keys |->
             IF key \in keys
             THEN Append(IF key \in DOMAIN index THEN index[key] ELSE <<>>, id)
             ELSE index[key]]

\* lines 33-39: the keyword index, from record i on
RECURSIVE KeywordIndexLoop(_, _, _)
KeywordIndexLoop(catalog, i, index) ==
    IF i > Len(catalog) THEN index
    ELSE KeywordIndexLoop(catalog, i + 1,
                          AppendUnder(index, _extract_keywords(catalog[i]),
                                      catalog[i].id))

\* lines 33 and 41-44: the category index, from record i on
RECURSIVE CategoryIndexLoop(_, _, _)
CategoryIndexLoop(catalog, i, index) ==
    IF i > Len(catalog) THEN index
    ELSE CategoryIndexLoop(catalog, i + 1,
                           AppendUnder(index, {catalog[i].category}, catalog[i].id))

\* lines 28-44: the two indexes _build_index leaves on the engine
BuiltKeywordIndex(catalog) == KeywordIndexLoop(catalog, 1, EmptyDict)
BuiltCategoryIndex(catalog) == CategoryIndexLoop(catalog, 1, EmptyDict)

(***************************************************************************)
(* Calls.  `call` is the call in progress (op "idle" between calls) and    *)
(* `result` the value it returned.                                         *)
(***************************************************************************)
Idle == [op |-> "idle", args |-> <<>>]
NoResult == <<>>

\* lines 24-26: the engine right after its construction over the catalog
Built ==
    /\ keyword_index = Some(BuiltKeywordIndex(use_cases))
    /\ category_index = Some(BuiltCategoryIndex(use_cases))

\* no call is remembered, no callers share the engine, the interactive loop
\* is not running
NoLoop == [pc |-> "off", event |-> <<"none">>, user_input |-> <<>>, reported |-> None]
aside == <<seen, frames, loop>>
Plain == seen = None /\ frames = <<>> /\ loop = NoLoop

\* the caller takes the returned value; the engine is ready for the next call
Return ==
    /\ call.op # "idle"
    /\ call' = Idle
    /\ result' = NoResult
    /\ UNCHANGED <<engine, aside>>

\* a direct call of the scorer with the arguments search derives from a query
CalculateRelevance ==
    /\ call.op = "idle"
    /\ \E i \in 1..Len(use_cases), q \in Queries :
        /\ call' = [op |-> "_calculate_relevance",
                    args |-> [use_case |-> use_cases[i],
                              query |-> QueryLower(q),
                              query_keywords |-> QueryKeywords(q)]]
        /\ result' = _calculate_relevance(use_cases[i], QueryLower(q),
                                          QueryKeywords(q))
    /\ UNCHANGED <<engine, aside>>

InitScorer ==
    /\ use_cases \in {<<uc>> : uc \in ScorerRecords}
    /\ Built
    /\ call = Idle
    /\ result = NoResult
    /\ Plain

NextScorer == CalculateRelevance \/ Return

SpecScorer == InitScorer /\ [][NextScorer]_vars

(***************************************************************************)
(* The engine over a catalog.  Ids are unique: a record's id is its        *)
(* position in the catalog.                                                *)
(***************************************************************************)
Id(i) == <<"u", i>>

\* an id no catalog record has
UnknownId == Id(0)

Template(title, description, category, complexity, benefits, example_prompts, tools_used, tags) ==
    UseCase(UnknownId, title, description, category, complexity, benefits,
            example_prompts, tools_used, tags)

PoolSeq ==
    <<Template(SQL \o sp \o api, <<"U">> \o sp \o SQL, "budgeting", "beginner",
               <<kpi>>, <<api \o sp \o sql \o sp \o kpi>>, <<SQL, kpi>>,
               <<sql, API>>),
      Template(Kpi, kpi \o sp \o api \o period, "forecasting", "intermediate",
               <<>>, <<>>, <<SQL>>, <<sql>>),
      Template(api \o comma \o sp \o sql, empty, "budgeting", "intermediate",
               <<sql \o sp \o Kpi>>, <<API \o sp \o SQL>>, <<>>, <<>>),
      Template(sql \o sp \o Kpi, kpi \o sp \o api \o period, "variance_analysis",
               "intermediate", <<>>, <<>>, <<kpi>>, <<API>>),
      Template(Kpi, Kpi, "compliance", "expert", <<>>, <<>>, <<>>, <<>>)>>

RecordPool == ToSet(PoolSeq)

\* the catalog holding the records of seq, each with its position as id
Catalog(seq) == [i \in 1..Len(seq) |-> [seq[i] EXCEPT !.id = Id(i)]]

\* every catalog of at most MaxRecords records of the pool
SmallCatalogs == {Catalog(seq) : seq \in ListsUpTo(RecordPool, MaxRecords)}

\* catalogs one record longer than the default limit: the pool repeated in
\* order, starting from each of its records
LargeCatalogs ==
    {Catalog([i \in 1..(DefaultLimit + 1) |->
                 PoolSeq[((i + o) % Len(PoolSeq)) + 1]]) :
        o \in 1..Len(PoolSeq)}

Catalogs == SmallCatalogs \cup LargeCatalogs

SearchQueries == {empty, sql, API, api \o sp \o sql, <<"p">>, sql \o sp \o kpi}

CategoryFilters == {None, Some(<<>>), Some(<<"budgeting", "forecasting">>)}

ComplexityFilters == {None, Some("intermediate")}

Limits == (-MaxLimit..MaxLimit) \cup {DefaultLimit}

SimilarLimits == (-MaxLimit..MaxLimit) \cup {DefaultSimilarLimit}

Search ==
    /\ call.op = "idle"
    /\ \E q \in SearchQueries, c \in CategoryFilters, x \in ComplexityFilters,
          l \in Limits :
        /\ call' = [op |-> "search",
                    args |-> [query |-> q, categories |-> c, complexity |-> x,
                              limit |-> l]]
        /\ result' = search(use_cases, q, c, x, l)
    /\ UNCHANGED <<engine, aside>>

GetSimilarUseCases ==
    /\ call.op = "idle"
    /\ \E i \in 0..Len(use_cases), l \in SimilarLimits :
        /\ call' = [op |-> "get_similar_use_cases",
                    args |-> [use_case_id |-> Id(i), limit |-> l]]
        /\ result' = get_similar_use_cases(use_cases, Id(i), l)
    /\ UNCHANGED <<engine, aside>>

Init ==
    /\ use_cases \in Catalogs
    /\ Built
    /\ call = Idle
    /\ result = NoResult
    /\ Plain

Next == Search \/ GetSimilarUseCases \/ Return

Spec == Init /\ [][Next]_vars

(***************************************************************************)
(* The engine answering recommendation requests.                           *)
(***************************************************************************)
UserContext(tools, challenges, role, experience, other) ==
    [tools |-> tools, challenges |-> challenges, role |-> role,
     experience |-> experience, other |-> other]

ContextTools == {None, Some(<<sql>>), Some(<<SQL, kpi>>)}
ContextChallenges == {None, Some(<<kpi>>), Some(<<sql, SQL>>), Some(<<Kpi, sql>>)}
ContextRoles ==
    {None, Some(analyst),
     Some(<<"B">> \o Tail(budget) \o sp \o analyst \o sp \o manager)}
ContextExperiences == {None, Some("beginner"), Some("expert")}
ContextOthers == {<<>>, <<"team">>}

Contexts ==
    {UserContext(t, c, r, e, o) :
        t \in ContextTools, c \in ContextChallenges, r \in ContextRoles,
        e \in ContextExperiences, o \in ContextOthers}

GetRecommendedUseCases ==
    /\ call.op = "idle"
    /\ \E user_context \in Contexts :
        /\ call' = [op |-> "get_recommended_use_cases",
                    args |-> [user_context |-> user_context]]
        /\ result' = get_recommended_use_cases(use_cases, user_context)
    /\ UNCHANGED <<engine, aside>>

NextRecommend == GetRecommendedUseCases \/ Return

SpecRecommend == Init /\ [][NextRecommend]_vars

(***************************************************************************)
(* The engine answering task descriptions.  The catalogs also draw on      *)
(* records that speak of budgets and automation.                           *)
(***************************************************************************)
Budget == <<"B">> \o Tail(budget)

PromptPoolSeq ==
    <<Template(Budget, empty, "budgeting", "beginner", <<>>, <<>>, <<>>, <<>>),
      Template(<<"p">>, empty, "automation", "intermediate",
               <<budget, phrase_automate>>, <<>>, <<>>, <<>>),
      Template(phrase_automate \o sp \o budget, empty, "automation", "advanced",
               <<>>, <<>>, <<>>, <<>>),
      Template(<<"p">>, empty, "automation", "beginner", <<>>, <<>>, <<>>,
               <<phrase_automate>>)>>

\* a catalog where three phrases find more than PromptLimit records between
\* them: one record speaks of all three, the others of one each
PhraseCatalog ==
    Catalog(<<PoolSeq[1]>>
            \o [i \in 1..(PhraseLimit - 1) |-> PoolSeq[5]]
            \o [i \in 1..(PhraseLimit - 1) |->
                   Template(sql, empty, "reporting", "advanced", <<>>, <<>>, <<>>, <<>>)]
            \o [i \in 1..(PhraseLimit - 1) |->
                   Template(api, empty, "reporting", "advanced", <<>>, <<>>, <<>>, <<>>)])

PromptCatalogs ==
    {Catalog(seq) : seq \in ListsUpTo(RecordPool \cup ToSet(PromptPoolSeq), MaxRecords)}
        \cup LargeCatalogs \cup {PhraseCatalog}

how == <<"h", "o", "w">>
to == <<"t", "o">>
consolidation == <<"c", "o", "n", "s", "o", "l", "i", "d", "a", "t", "i", "o", "n">>

\* "how to automate budget consolidation"
HowToAutomate ==
    how \o sp \o to \o sp \o phrase_automate \o sp \o budget \o sp \o consolidation

PromptTexts ==
    {empty, <<"p">>, SQL, api \o sp \o sql, kpi \o sp \o API \o sp \o sql,
     HowToAutomate}

SearchByPrompt ==
    /\ call.op = "idle"
    /\ \E task_description \in PromptTexts :
        /\ call' = [op |-> "search_by_prompt",
                    args |-> [task_description |-> task_description]]
        /\ result' = search_by_prompt(use_cases, task_description)
    /\ UNCHANGED <<engine, aside>>

InitPrompt ==
    /\ use_cases \in PromptCatalogs
    /\ Built
    /\ call = Idle
    /\ result = NoResult
    /\ Plain

NextPrompt == SearchByPrompt \/ Return

SpecPrompt == InitPrompt /\ [][NextPrompt]_vars

(***************************************************************************)
(* The engine answering all four kinds of request, one call after another. *)
(* A call and what it returned may be remembered once, to be compared with *)
(* a later call.                                                           *)
(***************************************************************************)
for == <<"f", "o", "r">>

EnginePoolSeq ==
    <<PoolSeq[1],
      Template(Kpi, kpi \o sp \o for \o sp \o api \o comma \o sql \o period,
               "variance_analysis", "intermediate", <<kpi>>, <<>>, <<SQL>>,
               <<sql \o sp \o to, API>>),
      Template(api \o comma \o sp \o sql, empty, "variance_analysis",
               "intermediate", <<sql \o sp \o Kpi>>, <<API \o sp \o SQL>>,
               <<>>, <<>>)>>

EngineCatalogs ==
    {Catalog(seq) : seq \in ListsUpTo(ToSet(EnginePoolSeq), MaxRecords)}

EngineSearchCalls ==
    {[op |-> "search",
      args |-> [query |-> q[1], categories |-> None, complexity |-> q[2],
                limit |-> q[3]]] :
        q \in {<<sql, None, DefaultLimit>>, <<<<"p">>, Some("intermediate"), 1>>}}

EngineSimilarCalls ==
    {[op |-> "get_similar_use_cases",
      args |-> [use_case_id |-> id, limit |-> DefaultSimilarLimit]] :
        id \in {Id(1), UnknownId}}

EngineRecommendCalls ==
    {[op |-> "get_recommended_use_cases", args |-> [user_context |-> c]] :
        c \in {UserContext(None, Some(<<kpi>>), None, None, <<>>),
               UserContext(None, None, Some(analyst), Some("beginner"), <<>>)}}

EnginePromptCalls ==
    {[op |-> "search_by_prompt", args |-> [task_description |-> t]] :
        t \in {api \o sp \o sql, <<"p">>}}

\* a remembered call has been followed by a different call
Followed(c) ==
    IF seen # None /\ seen[1].call # c
    THEN Some([seen[1] EXCEPT !.between = TRUE])
    ELSE seen

\* faulty variant: the query keywords are looked up in the keyword index in a
\* way that enters a missing keyword with an empty list
EngineSearchEnteringKeywords ==
    /\ call.op = "idle"
    /\ \E c \in EngineSearchCalls :
        /\ call' = c
        /\ result' = search(use_cases, c.args.query, c.args.categories,
                            c.args.complexity, c.args.limit)
        /\ keyword_index' =
               Some([k \in (DOMAIN keyword_index[1]) \cup QueryKeywords(c.args.query) |->
                        IF k \in DOMAIN keyword_index[1]
                        THEN keyword_index[1][k] ELSE <<>>])
        /\ seen' = Followed(c)
    /\ UNCHANGED <<use_cases, category_index, frames, loop>>

EngineSearch ==
    /\ call.op = "idle"
    /\ \E c \in EngineSearchCalls :
        /\ call' = c
        /\ result' = search(use_cases, c.args.query, c.args.categories,
                            c.args.complexity, c.args.limit)
        /\ seen' = Followed(c)
    /\ UNCHANGED <<engine, frames, loop>>

EngineGetSimilarUseCases ==
    /\ call.op = "idle"
    /\ \E c \in EngineSimilarCalls :
        /\ call' = c
        /\ result' = get_similar_use_cases(use_cases, c.args.use_case_id,
                                           c.args.limit)
        /\ seen' = Followed(c)
    /\ UNCHANGED <<engine, frames, loop>>

\* faulty variant: the records are sorted by score in the list the database
\* hands out, which is the catalog itself
EngineGetRecommendedUseCasesSortingCatalog ==
    /\ call.op = "idle"
    /\ \E c \in EngineRecommendCalls :
        /\ call' = c
        /\ result' = get_recommended_use_cases(use_cases, c.args.user_context)
        /\ use_cases' =
               RecordsOf(SortScores([i \in 1..Len(use_cases) |->
                   <<use_cases[i],
                     RecommendScore(use_cases[i], c.args.user_context)>>]))
        /\ seen' = Followed(c)
    /\ UNCHANGED <<keyword_index, category_index, frames, loop>>

EngineGetRecommendedUseCases ==
    /\ call.op = "idle"
    /\ \E c \in EngineRecommendCalls :
        /\ call' = c
        /\ result' = get_recommended_use_cases(use_cases, c.args.user_context)
        /\ seen' = Followed(c)
    /\ UNCHANGED <<engine, frames, loop>>

EngineSearchByPrompt ==
    /\ call.op = "idle"
    /\ \E c \in EnginePromptCalls :
        /\ call' = c
        /\ result' = search_by_prompt(use_cases, c.args.task_description)
        /\ seen' = Followed(c)
    /\ UNCHANGED <<engine, frames, loop>>

\* the call in progress and what it returned are kept for later
Remember ==
    /\ call.op # "idle"
    /\ seen = None
    /\ seen' = Some([call |-> call, result |-> result,
                     indexes |-> <<keyword_index, category_index>>,
                     between |-> FALSE])
    /\ UNCHANGED <<engine, call, result, frames, loop>>

InitEngine ==
    /\ use_cases \in EngineCatalogs
    /\ Built
    /\ call = Idle
    /\ result = NoResult
    /\ Plain

EngineCall ==
    \/ EngineSearch
    \/ EngineGetSimilarUseCases
    \/ EngineGetRecommendedUseCases
    \/ EngineSearchByPrompt

NextEngine == EngineCall \/ Return \/ Remember

SpecEngine == InitEngine /\ [][NextEngine]_vars

(***************************************************************************)
(* The engine with its two index attributes changed between the calls:     *)
(* both dicts emptied, both attributes deleted, or both rebuilt by         *)
(* _build_index.                                                           *)
(***************************************************************************)
EmptyIndexes ==
    /\ call.op = "idle"
    /\ keyword_index # Some(EmptyDict) \/ category_index # Some(EmptyDict)
    /\ keyword_index' = Some(EmptyDict)
    /\ category_index' = Some(EmptyDict)
    /\ UNCHANGED <<use_cases, call, result, aside>>

DeleteIndexes ==
    /\ call.op = "idle"
    /\ keyword_index # None
    /\ keyword_index' = None
    /\ category_index' = None
    /\ UNCHANGED <<use_cases, call, result, aside>>

\* lines 28-44
_build_index ==
    /\ call.op = "idle"
    /\ keyword_index' = Some(BuiltKeywordIndex(use_cases))
    /\ category_index' = Some(BuiltCategoryIndex(use_cases))
    /\ ~Built
    /\ UNCHANGED <<use_cases, call, result, aside>>

IndexChange == EmptyIndexes \/ DeleteIndexes \/ _build_index

NextIndex == EngineCall \/ Return \/ Remember \/ IndexChange

SpecIndex == InitEngine /\ [][NextIndex]_vars

(***************************************************************************)
(* Several callers on one engine.  Each caller has a frame with the locals *)
(* of its call: the loop position, the list it builds and, in              *)
(* search_by_prompt, the found phrases.  A step is one pass of the call's  *)
(* loop over the catalog (search, get_similar_use_cases,                   *)
(* get_recommended_use_cases) or over the found phrases (search_by_prompt);*)
(* steps of different callers interleave in any order.                     *)
(***************************************************************************)
Callers == {1, 2}

SharedCalls ==
    {[op |-> "search",
      args |-> [query |-> sql, categories |-> None, complexity |-> None,
                limit |-> DefaultLimit]],
     [op |-> "get_similar_use_cases",
      args |-> [use_case_id |-> Id(1), limit |-> DefaultSimilarLimit]],
     [op |-> "get_recommended_use_cases",
      args |-> [user_context |-> UserContext(None, Some(<<kpi>>), None, None, <<>>)]],
     [op |-> "search_by_prompt", args |-> [task_description |-> api \o sp \o sql]],
     [op |-> "search_by_prompt", args |-> [task_description |-> <<"p">>]]}

NoFrame ==
    [pc |-> "idle", call |-> Idle, i |-> 0, acc |-> <<>>,
     found_phrases |-> <<>>, result |-> NoResult]

\* faulty variant: combined_results is an attribute of the engine, one dict for
\* all callers
AccumulatorOfEngine(c) == 1

\* line 299: combined_results is a local of the call, one dict for each call
\* in progress
AccumulatorOf(c) == c

\* the number of passes of the loop of the call in frame f
LoopEnd(f) ==
    IF f.call.op = "search_by_prompt" THEN Len(f.found_phrases)
    ELSE Len(use_cases)

\* a step of caller c falls between the steps of every other call in progress
Mixing(c) ==
    [d \in Callers |->
        IF d # c /\ frames.of[d].pc = "loop" THEN TRUE ELSE frames.mixed[d]]

\* the call is entered: lines 82-85, 176-180, 225-226, 291-299
SharedBegin(c) ==
    /\ frames.of[c].pc = "idle"
    /\ \E k \in SharedCalls :
        LET found == IF k.op = "search_by_prompt"
                     THEN FoundPhrases(k.args.task_description) ELSE <<>>
            f == [NoFrame EXCEPT !.call = k, !.i = 1, !.found_phrases = found]
        IN  IF k.op = "search_by_prompt" /\ found = <<>>
            THEN frames' = [frames EXCEPT
                     !.of[c] = [f EXCEPT !.pc = "done",
                                         !.result = PromptFallback(use_cases,
                                                        k.args.task_description)],
                     !.mixed[c] = FALSE]
            ELSE IF k.op = "get_similar_use_cases"
                    /\ get_by_id(use_cases, k.args.use_case_id) = None
            THEN frames' = [frames EXCEPT
                     !.of[c] = [f EXCEPT !.pc = "done", !.result = <<>>],
                     !.mixed[c] = FALSE]
            ELSE IF k.op = "search_by_prompt"
            THEN frames' = [frames EXCEPT
                     !.of[c] = [f EXCEPT !.pc = "loop"],
                     !.combined_results[AccumulatorOf(c)] = <<>>,
                     !.mixed[c] = FALSE]
            ELSE frames' = [frames EXCEPT
                     !.of[c] = [f EXCEPT !.pc = "loop"],
                     !.mixed[c] = FALSE]
    /\ UNCHANGED <<engine, call, result, seen, loop>>

\* one pass of the loop: lines 87-102, 182-205, 228-267, 301-308
SharedStep(c) ==
    LET f == frames.of[c]
        a == f.call.args
    IN  /\ f.pc = "loop"
        /\ f.i <= LoopEnd(f)
        /\ frames' =
             IF f.call.op = "search"
             THEN [frames EXCEPT
                     !.of[c].i = f.i + 1,
                     !.of[c].acc =
                         SearchLoop(SubSeq(use_cases, f.i, f.i), 1,
                                    QueryLower(a.query), QueryKeywords(a.query),
                                    a.categories, a.complexity, f.acc),
                     !.mixed = Mixing(c)]
             ELSE IF f.call.op = "get_similar_use_cases"
             THEN [frames EXCEPT
                     !.of[c].i = f.i + 1,
                     !.of[c].acc =
                         SimilarLoop(SubSeq(use_cases, f.i, f.i), 1,
                                     a.use_case_id,
                                     get_by_id(use_cases, a.use_case_id)[1],
                                     f.acc),
                     !.mixed = Mixing(c)]
             ELSE IF f.call.op = "get_recommended_use_cases"
             THEN [frames EXCEPT
                     !.of[c].i = f.i + 1,
                     !.of[c].acc =
                         RecommendLoop(SubSeq(use_cases, f.i, f.i), 1,
                                       a.user_context, f.acc),
                     !.mixed = Mixing(c)]
             ELSE [frames EXCEPT
                     !.of[c].i = f.i + 1,
                     !.combined_results[AccumulatorOf(c)] =
                         MergeLoop(@, search(use_cases, f.found_phrases[f.i],
                                             None, None, PhraseLimit), 1),
                     !.mixed = Mixing(c)]
        /\ UNCHANGED <<engine, call, result, seen, loop>>

\* the list is sorted and cut: lines 104-107, 207-210, 269-270, 310-313
SharedFinish(c) ==
    LET f == frames.of[c]
        a == f.call.args
    IN  /\ f.pc = "loop"
        /\ f.i > LoopEnd(f)
        /\ frames' = [frames EXCEPT
             !.of[c].pc = "done",
             !.of[c].result =
                 IF f.call.op = "search"
                 THEN Slice(SortResults(f.acc), a.limit)
                 ELSE IF f.call.op = "get_similar_use_cases"
                 THEN RecordsOf(Slice(SortScores(f.acc), a.limit))
                 ELSE IF f.call.op = "get_recommended_use_cases"
                 THEN RecordsOf(Slice(SortScores(f.acc), RecommendLimit))
                 ELSE Slice(SortResults(frames.combined_results[AccumulatorOf(c)]),
                            PromptLimit)]
        /\ UNCHANGED <<engine, call, result, seen, loop>>

\* the caller has its result and is free for its next call
SharedReturn(c) ==
    /\ frames.of[c].pc = "done"
    /\ frames' = [frames EXCEPT !.of[c] = NoFrame, !.mixed[c] = FALSE]
    /\ UNCHANGED <<engine, call, result, seen, loop>>

InitShared ==
    /\ use_cases \in EngineCatalogs
    /\ Built
    /\ call = Idle
    /\ result = NoResult
    /\ seen = None
    /\ loop = NoLoop
    /\ frames = [of |-> [c \in Callers |-> NoFrame],
                 combined_results |-> [c \in Callers |-> <<>>],
                 mixed |-> [c \in Callers |-> FALSE]]

NextShared ==
    \E c \in Callers :
        \/ SharedBegin(c)
        \/ SharedStep(c)
        \/ SharedFinish(c)
        \/ SharedReturn(c)

SpecShared == InitShared /\ [][NextShared]_vars

(***************************************************************************)
(* FPAUseCaseFinderCLI._interactive_mode (main.py lines 305-364).  A pass  *)
(* of the loop reads a line and, unless the line is empty, a quit word or  *)
(* help, handles it as a command.  The read and the handling can raise:    *)
(* KeyboardInterrupt, EOFError at the end of the input stream, or another  *)
(* Exception.                                                              *)
(***************************************************************************)
word_quit == <<"q", "u", "i", "t">>
word_exit == <<"e", "x", "i", "t">>
word_q == <<"q">>
word_help == <<"h", "e", "l", "p">>
word_search == <<"s", "e", "a", "r", "c", "h">>
word_list == <<"l", "i", "s", "t">>
word_categories == <<"c", "a", "t", "e", "g", "o", "r", "i", "e", "s">>
word_stats == <<"s", "t", "a", "t", "s">>
word_show == <<"s", "h", "o", "w">>

\* line 312
QuitWords == {word_quit, word_exit, word_q}

InteractiveLimit == 5
ListLimit == 10

\* str.strip
Strip(s) ==
    LET inked == {j \in 1..Len(s) : s[j] \notin Whitespace}
    IN  IF inked = {} THEN <<>>
        ELSE SubSeq(s, CHOOSE j \in inked : \A k \in inked : j <= k,
                       CHOOSE j \in inked : \A k \in inked : j >= k)

\* line 321: str.split(maxsplit=1) of a stripped line that is not empty
Parts(user_input) ==
    LET blanks == {j \in 1..Len(user_input) : user_input[j] \in Whitespace}
    IN  IF blanks = {} THEN <<user_input>>
        ELSE LET b == CHOOSE j \in blanks : \A k \in blanks : j <= k
             IN  <<SubSeq(user_input, 1, b - 1),
                   Strip(SubSeq(user_input, b + 1, Len(user_input)))>>

\* what the loop reads: a line, or an exception raised by input()
Line(text) == <<"line", text>>

InputLines ==
    {<<>>,
     <<" ">>,
     <<"q">>,
     <<" ", "Q", " ">>,
     <<" ", "Q", "u", "i", "t">>,
     <<"e", "x", "i", "t">>,
     <<"q", "u", "i", "e", "t">>,
     <<"h", "e", "l", "p">>,
     <<"s", "e", "a", "r", "c", "h", " ", "s", "q", "l">>,
     <<"s", "e", "a", "r", "c", "h">>,
     <<"l", "i", "s", "t">>,
     <<"s", "t", "a", "t", "s">>,
     <<"c", "a", "t", "e", "g", "o", "r", "i", "e", "s">>,
     <<"s", "h", "o", "w", " ", "x">>,
     <<"s", "q", "l", " ", "a", "p", "i">>,
     <<"q", " ", "q">>}

ReadOutcomes ==
    {Line(t) : t \in InputLines}
        \cup {Raised("KeyboardInterrupt"), Raised("EOFError")}

HandleOutcomes ==
    {<<"returned">>, Raised("KeyboardInterrupt"), Raised("ValueError")}

\* faulty variant: the end of the input stream leaves the loop too
CaughtLeavingAtEndOfInput(e) ==
    IF e \in {"KeyboardInterrupt", "EOFError"} THEN "break" ELSE "report"

\* lines 360-364: KeyboardInterrupt leaves the loop, any other Exception is
\* printed
Caught(e) == IF e = "KeyboardInterrupt" THEN "break" ELSE "report"

\* the loop after the exception e
AfterRaised(e) ==
    IF Caught(e) = "break"
    THEN [loop EXCEPT !.pc = "left", !.event = Raised(e), !.reported = None]
    ELSE [loop EXCEPT !.pc = "prompt", !.event = Raised(e), !.reported = Some(e)]

\* lines 288-305
EnterInteractive ==
    /\ loop.pc = "off"
    /\ loop' = [loop EXCEPT !.pc = "prompt"]
    /\ UNCHANGED <<engine, call, result, seen, frames>>

\* lines 307-318
ReadLine ==
    /\ loop.pc = "prompt"
    /\ \E o \in ReadOutcomes :
        IF o[1] = "raised" THEN loop' = AfterRaised(o[2])
        ELSE LET user_input == Strip(o[2])
             IN  loop' =
                    [loop EXCEPT
                        !.event = o,
                        !.user_input = user_input,
                        !.reported = None,
                        !.pc = IF user_input = <<>> THEN "prompt"
                               ELSE IF Lower(user_input) \in QuitWords THEN "left"
                               ELSE IF Lower(user_input) = word_help THEN "prompt"
                               ELSE "command"]
    /\ UNCHANGED <<engine, call, result, seen, frames>>

\* lines 321-358
HandleCommand ==
    /\ loop.pc = "command"
    /\ \E o \in HandleOutcomes :
        IF o[1] = "raised"
        THEN /\ loop' = AfterRaised(o[2])
             /\ UNCHANGED <<call, result>>
        ELSE LET parts == Parts(loop.user_input)
                 command == Lower(parts[1])
             IN  /\ loop' = [loop EXCEPT !.pc = "prompt"]
                 /\ IF command = word_search /\ Len(parts) > 1
                    THEN /\ call' = [op |-> "search",
                                     args |-> [query |-> parts[2],
                                               categories |-> None,
                                               complexity |-> None,
                                               limit |-> InteractiveLimit]]
                         /\ result' = search(use_cases, parts[2], None, None,
                                             InteractiveLimit)
                    ELSE IF command = word_list
                    THEN /\ call' = [op |-> "list", args |-> <<>>]
                         /\ result' = Slice(use_cases, ListLimit)
                    ELSE IF command \in {word_categories, word_stats}
                    THEN /\ call' = [op |-> "report", args |-> <<>>]
                         /\ result' = NoResult
                    ELSE IF command = word_show /\ Len(parts) > 1
                    THEN /\ call' = [op |-> "get_by_id",
                                     args |-> [use_case_id |-> parts[2]]]
                         /\ result' = get_by_id(use_cases, parts[2])
                    ELSE /\ call' = [op |-> "search_by_prompt",
                                     args |-> [task_description |-> loop.user_input]]
                         /\ result' = search_by_prompt(use_cases, loop.user_input)
    /\ UNCHANGED <<engine, seen, frames>>

InitInteractive ==
    /\ use_cases \in EngineCatalogs
    /\ Built
    /\ call = Idle
    /\ result = NoResult
    /\ Plain

NextInteractive == EnterInteractive \/ ReadLine \/ HandleCommand

SpecInteractive == InitInteractive /\ [][NextInteractive]_vars

(***************************************************************************)
(* Claims about the scorer.                                                *)
(***************************************************************************)
Scored == call.op = "_calculate_relevance"

TitleTokens(uc) == ToSet(Split(Lower(uc.title)))
DescriptionTokens(uc) == ToSet(Split(Lower(uc.description)))

ExpectedTitle(uc, q, kw) ==
    IF Contains(Lower(uc.title), q) THEN Pt(10)
    ELSE Pt(3) * Cardinality({t \in kw : t \in TitleTokens(uc)})

ExpectedDescription(uc, q, kw) ==
    IF Contains(Lower(uc.description), q) THEN Pt(5)
    ELSE PtHalf(1) * Cardinality({t \in kw : t \in DescriptionTokens(uc)})

ExpectedTags(uc, q) ==
    Pt(4) * Cardinality({i \in 1..Len(uc.tags) :
                            \/ Contains(q, Lower(uc.tags[i]))
                            \/ Contains(Lower(uc.tags[i]), q)})

ExpectedPrompts(uc, q) ==
    IF \E i \in 1..Len(uc.example_prompts) :
           Contains(Lower(uc.example_prompts[i]), q)
    THEN Pt(3) ELSE 0

ExpectedTools(uc, q) ==
    Pt(2) * Cardinality({i \in 1..Len(uc.tools_used) :
                            \/ Contains(q, Lower(uc.tools_used[i]))
                            \/ Contains(Lower(uc.tools_used[i]), q)})

ExpectedBenefits(uc, q) ==
    IF \E i \in 1..Len(uc.benefits) : Contains(Lower(uc.benefits[i]), q)
    THEN PtHalf(1) ELSE 0

ExpectedScore(uc, q, kw) ==
    ExpectedTitle(uc, q, kw) + ExpectedDescription(uc, q, kw)
    + ExpectedTags(uc, q) + ExpectedPrompts(uc, q) + ExpectedTools(uc, q)
    + ExpectedBenefits(uc, q)

\* C1: the score the scorer returns is the sum of the six field
\* contributions of the scoring table: title 10.0 on a substring match, else
\* 3.0 per common token; description 5.0, else 1.5 per common token; 4.0 per
\* tag and 2.0 per tool that contains or is contained in the query; 3.0 and
\* 1.5 once when some prompt, some benefit contains the query.
C1_ScoreIsSumOfFields ==
    Scored =>
        result.score = ExpectedScore(call.args.use_case, call.args.query,
                                     call.args.query_keywords)

\* a call where the title misses the exact match and scores on two common
\* tokens, two tags match, and the second of two matching prompts is skipped
C1_Witness ==
    /\ Scored
    /\ ~Contains(Lower(call.args.use_case.title), call.args.query)
    /\ ExpectedTitle(call.args.use_case, call.args.query,
                     call.args.query_keywords) = Pt(6)
    /\ ExpectedTags(call.args.use_case, call.args.query) = Pt(8)
    /\ ExpectedPrompts(call.args.use_case, call.args.query) = Pt(3)
    /\ Cardinality({i \in 1..Len(call.args.use_case.example_prompts) :
           Contains(Lower(call.args.use_case.example_prompts[i]),
                    call.args.query)}) = 2
    /\ result.score = ExpectedScore(call.args.use_case, call.args.query,
                                    call.args.query_keywords)

\* the field names in the order the scorer examines the fields
FieldOrder == <<"title", "description", "tags", "prompts", "tools", "benefits">>

FieldPos(name) == CHOOSE n \in 1..Len(FieldOrder) : FieldOrder[n] = name

\* C8: the matched-fields list holds only the six field names, none twice,
\* in the order title, description, tags, prompts, tools, benefits.
C8_MatchedFieldsOrderedNoDup ==
    Scored =>
        /\ \A i \in 1..Len(result.matched_fields) :
               result.matched_fields[i] \in ToSet(FieldOrder)
        /\ \A i, j \in 1..Len(result.matched_fields) :
               i < j => FieldPos(result.matched_fields[i])
                            < FieldPos(result.matched_fields[j])

\* a call where two tags and two tools match and all six fields are marked
C8_Witness ==
    /\ Scored
    /\ ExpectedTags(call.args.use_case, call.args.query) = Pt(8)
    /\ ExpectedTools(call.args.use_case, call.args.query) = Pt(4)
    /\ result.matched_fields = FieldOrder

\* C9: a field is in the matched fields exactly when its block of the scorer
\* raised the score, so the score is above 0 exactly when some field is
\* marked.
C9_MatchedIffContributed ==
    Scored =>
        /\ \A n \in 1..Len(FieldOrder) :
               InList(FieldOrder[n], result.matched_fields)
               <=> ScorerAfter(n, call.args.use_case, call.args.query,
                               call.args.query_keywords).score
                   > ScorerAfter(n - 1, call.args.use_case, call.args.query,
                                 call.args.query_keywords).score
        /\ result.score > 0 <=> result.matched_fields # <<>>

\* a call where only the description scores, on its token overlap
C9_Witness ==
    /\ Scored
    /\ result.matched_fields = <<"description">>
    /\ result.score = PtHalf(1)
    /\ ~Contains(Lower(call.args.use_case.description), call.args.query)

(***************************************************************************)
(* Claims about search.                                                    *)
(***************************************************************************)
Searched == call.op = "search"

\* the score the scorer gives record i of the catalog for the query of the call
ScoreFor(i) ==
    _calculate_relevance(use_cases[i], QueryLower(call.args.query),
                         QueryKeywords(call.args.query)).score

\* the records of the catalog that pass the filters of the call
Passing ==
    {i \in 1..Len(use_cases) :
        ~FilteredOut(use_cases[i], call.args.categories, call.args.complexity)}

\* the passing records that score above 0
Positive == {i \in Passing : ScoreFor(i) > 0}

\* record i of the catalog has an entry in the returned sequence
ResultHas(i) == \E k \in 1..Len(result) : result[k].use_case = use_cases[i]

\* the position in the catalog of the record of a result entry
CatalogPos(r) == CHOOSE i \in 1..Len(use_cases) : use_cases[i].id = r.use_case.id

Unfiltered == call.args.categories = None /\ call.args.complexity = None

\* C2 (as claimed): search("") scores every record 0 and returns the empty
\* sequence, whatever the filters and the limit.
C2_EmptyQueryReturnsNothing ==
    (Searched /\ call.args.query = empty) =>
        /\ \A i \in 1..Len(use_cases) : ScoreFor(i) = 0
        /\ result = <<>>

\* C3 (as claimed): a record whose title contains the query, ignoring case,
\* has an entry of score at least 10.0 in search(Q) (no filters, limit 10).
\* Taken on the non-empty queries, so that what search does with the empty
\* query (C2) plays no part in the refutation.
C3_TitleMatchReturned ==
    (Searched /\ Unfiltered /\ call.args.limit = DefaultLimit
        /\ call.args.query # empty) =>
        \A i \in 1..Len(use_cases) :
            Contains(Lower(use_cases[i].title), Lower(call.args.query)) =>
                \E k \in 1..Len(result) :
                    /\ result[k].use_case = use_cases[i]
                    /\ result[k].relevance_score >= Pt(10)

\* C3 (amended): such a record scores at least 10.0, and search(Q) holds its
\* entry with that score unless the limit cut it off: then 10 entries are
\* returned, each with a score at least that of the record.
C3_TitleMatchReturnedUnlessTruncated ==
    (Searched /\ Unfiltered /\ call.args.limit = DefaultLimit) =>
        \A i \in 1..Len(use_cases) :
            Contains(Lower(use_cases[i].title), Lower(call.args.query)) =>
                /\ ScoreFor(i) >= Pt(10)
                /\ \/ \E k \in 1..Len(result) :
                          /\ result[k].use_case = use_cases[i]
                          /\ result[k].relevance_score = ScoreFor(i)
                   \/ /\ Len(result) = DefaultLimit
                      /\ \A k \in 1..Len(result) :
                             result[k].relevance_score >= ScoreFor(i)

\* a search of a non-empty query in mixed case that returns, with a score of
\* at least 10.0, a record whose title contains it in another case
C3_Witness ==
    /\ Searched /\ Unfiltered /\ call.args.limit = DefaultLimit
    /\ call.args.query = API
    /\ \E k \in 1..Len(result) :
           /\ Contains(Lower(result[k].use_case.title), Lower(call.args.query))
           /\ ~Contains(result[k].use_case.title, call.args.query)
           /\ result[k].relevance_score >= Pt(10)

\* C4: the returned sequence is in descending order of score, and entries of
\* equal score are in the order of their records in the catalog.
C4_SortedDescendingStable ==
    Searched =>
        \A j, k \in 1..Len(result) :
            j < k =>
                /\ result[j].relevance_score >= result[k].relevance_score
                /\ result[j].relevance_score = result[k].relevance_score
                       => CatalogPos(result[j]) < CatalogPos(result[k])

\* a result where a later record of the catalog outranks two earlier records
\* that tie
C4_Witness ==
    /\ Searched
    /\ \E j, k, m \in 1..Len(result) :
           /\ j < k /\ k < m
           /\ result[j].relevance_score > result[k].relevance_score
           /\ result[k].relevance_score = result[m].relevance_score
           /\ CatalogPos(result[j]) > CatalogPos(result[m])

\* C5 (as claimed): for every integer limit, negative ones included, the
\* returned sequence has at most limit entries.  Taken on the non-empty
\* queries, as for C3.
C5_LengthAtMostLimit ==
    (Searched /\ call.args.query # empty) => Len(result) <= call.args.limit

\* C5 (amended): for a limit of 0 or more the returned sequence has at most
\* limit entries; for a negative limit it is the ranked list without its last
\* -limit entries, of length max(0, n + limit) for n records that pass the
\* filters and score above 0.
C5_LengthAtMostNonNegativeLimit ==
    Searched =>
        /\ call.args.limit >= 0 => Len(result) <= call.args.limit
        /\ call.args.limit < 0 =>
               Len(result) = IF Cardinality(Positive) + call.args.limit > 0
                             THEN Cardinality(Positive) + call.args.limit
                             ELSE 0

\* a search whose limit cut the ranked list
C5_Witness ==
    /\ Searched
    /\ call.args.limit > 0
    /\ Cardinality(Positive) > call.args.limit
    /\ Len(result) = call.args.limit

\* C6 (as claimed): with a category filter, the empty one included, every
\* returned record's category is in it; with a complexity filter every
\* returned record has that complexity.  Taken on the non-empty queries, as
\* for C3.
C6_FiltersRespected ==
    (Searched /\ call.args.query # empty) =>
        /\ call.args.categories # None =>
               \A k \in 1..Len(result) :
                   InList(result[k].use_case.category, call.args.categories[1])
        /\ call.args.complexity # None =>
               \A k \in 1..Len(result) :
                   result[k].use_case.complexity = call.args.complexity[1]

\* C6 (amended): the same for a category filter that is not empty; an empty
\* category list is no filter.
C6_NonEmptyFiltersRespected ==
    Searched =>
        /\ (call.args.categories # None /\ call.args.categories[1] # <<>>) =>
               \A k \in 1..Len(result) :
                   InList(result[k].use_case.category, call.args.categories[1])
        /\ call.args.complexity # None =>
               \A k \in 1..Len(result) :
                   result[k].use_case.complexity = call.args.complexity[1]

\* a search with both filters that returns a record and leaves out another
\* that scores above 0 and has the complexity asked for, for its category
C6_Witness ==
    /\ Searched
    /\ call.args.categories # None /\ call.args.categories[1] # <<>>
    /\ call.args.complexity # None
    /\ result # <<>>
    /\ \E i \in 1..Len(use_cases) :
           /\ ScoreFor(i) > 0
           /\ ~InList(use_cases[i].category, call.args.categories[1])
           /\ use_cases[i].complexity = call.args.complexity[1]
           /\ ~ResultHas(i)

\* the ranked list of the call before the slice (the local `results`)
Untruncated ==
    SortResults(SearchLoop(use_cases, 1, QueryLower(call.args.query),
                           QueryKeywords(call.args.query), call.args.categories,
                           call.args.complexity, <<>>))

\* the records that have an entry in that list
RecordsIn(results) == {results[k].use_case : k \in 1..Len(results)}

UntruncatedRecords == RecordsIn(Untruncated)

\* C7: every returned entry scores above 0; a record that passes the filters
\* is missing from the list before truncation exactly when it scores 0; and
\* when fewer than limit records score above 0 all of them are returned.
C7_PositiveScoresOnly ==
    Searched =>
        /\ \A k \in 1..Len(result) : result[k].relevance_score > 0
        /\ {use_cases[i] : i \in Passing} \cap UntruncatedRecords
               = {use_cases[i] : i \in Positive}
        /\ Cardinality(Positive) < call.args.limit =>
               \A i \in Passing : ResultHas(i) <=> ScoreFor(i) > 0

\* a search under its limit where one passing record is returned and another
\* is left out for scoring 0
C7_Witness ==
    /\ Searched
    /\ Cardinality(Positive) < call.args.limit
    /\ \E i \in Passing : ScoreFor(i) > 0 /\ ResultHas(i)
    /\ \E i \in Passing : ScoreFor(i) = 0 /\ ~ResultHas(i)

(***************************************************************************)
(* Claims about get_similar_use_cases.                                     *)
(***************************************************************************)
SimilarCalled == call.op = "get_similar_use_cases"

\* C10: the sequence the similarity lookup returns never holds a record with
\* the id that was passed in.
C10_SimilarExcludesSource ==
    SimilarCalled =>
        \A k \in 1..Len(result) : result[k].id # call.args.use_case_id

\* a lookup of a known id that returns other records
C10_Witness ==
    /\ SimilarCalled
    /\ get_by_id(use_cases, call.args.use_case_id) # None
    /\ result # <<>>
    /\ \A k \in 1..Len(result) : result[k].id # call.args.use_case_id

\* the positions of the catalog that hold the id of the call
SourcePositions == {i \in 1..Len(use_cases) : use_cases[i].id = call.args.use_case_id}

\* C11: a similarity lookup with an id that no catalog record has returns the
\* empty sequence (the lookup is total: it returns, it does not raise).
C11_UnknownIdReturnsEmpty ==
    (SimilarCalled /\ SourcePositions = {}) => result = <<>>

\* a lookup of the unknown id in a catalog that has records
C11_Witness ==
    /\ SimilarCalled
    /\ use_cases # <<>>
    /\ call.args.use_case_id = UnknownId
    /\ SourcePositions = {}
    /\ result = <<>>

\* the values two records have in common in a list field
Common(a, b) == {v \in ToSet(a) : \E k \in 1..Len(b) : b[k] = v}

\* the similarity of catalog record i to the record at position s, in halves
SimilarityOf(i, s) ==
    (IF use_cases[i].category = use_cases[s].category THEN 10 ELSE 0)
    + 4 * Cardinality(Common(use_cases[i].tags, use_cases[s].tags))
    + (IF use_cases[i].complexity = use_cases[s].complexity THEN 2 ELSE 0)
    + 3 * Cardinality(Common(use_cases[i].tools_used, use_cases[s].tools_used))

\* the records other than the source that score above 0
SimilarCandidates(s) ==
    {i \in 1..Len(use_cases) :
        use_cases[i].id # call.args.use_case_id /\ SimilarityOf(i, s) > 0}

\* the number of candidates ranked before candidate i: those scoring higher,
\* and those scoring the same that come earlier in the catalog
SimilarBefore(i, s) ==
    Cardinality({j \in SimilarCandidates(s) :
                    \/ SimilarityOf(j, s) > SimilarityOf(i, s)
                    \/ SimilarityOf(j, s) = SimilarityOf(i, s) /\ j < i})

\* the length the slice [:limit] leaves of n entries
SliceLen(n, limit) ==
    IF limit >= 0 THEN (IF limit < n THEN limit ELSE n)
    ELSE (IF n + limit > 0 THEN n + limit ELSE 0)

\* C12: for a known id the similarity lookup returns exactly the records
\* other than the source whose score is above 0, the score being 5.0 for the
\* same category, 2.0 for each common tag, 1.0 for the same complexity and 1.5
\* for each common tool, ordered by descending score with ties in catalog
\* order, and cut by the slice [:limit].
C12_SimilarRanking ==
    (SimilarCalled /\ SourcePositions # {}) =>
        \A s \in SourcePositions :
            /\ Len(result) = SliceLen(Cardinality(SimilarCandidates(s)), call.args.limit)
            /\ \A k \in 1..Len(result) :
                   \E i \in SimilarCandidates(s) :
                       /\ SimilarBefore(i, s) = k - 1
                       /\ result[k] = use_cases[i]

\* a lookup cut by its limit whose result holds two records of equal score
\* and one record that shares only the complexity with the source
C12_Witness ==
    /\ SimilarCalled
    /\ \E s \in SourcePositions :
          /\ Len(result) = call.args.limit
          /\ Cardinality(SimilarCandidates(s)) > call.args.limit
          /\ \E i, j \in SimilarCandidates(s) :
                /\ i < j
                /\ SimilarityOf(i, s) = SimilarityOf(j, s)
                /\ SimilarBefore(j, s) < Len(result)
          /\ \E i \in SimilarCandidates(s) :
                /\ SimilarityOf(i, s) = 2
                /\ SimilarBefore(i, s) < Len(result)

(***************************************************************************)
(* Claims about get_recommended_use_cases.                                 *)
(***************************************************************************)
Recommended == call.op = "get_recommended_use_cases"

Context == call.args.user_context

\* the score the call gives catalog record i
RecommendScoreOf(i) == RecommendScore(use_cases[i], Context)

\* the context has none of the keys tools, challenges, role and experience
NoRecognizedKey ==
    /\ Context.tools = None
    /\ Context.challenges = None
    /\ Context.role = None
    /\ Context.experience = None

\* C13: a recommendation request whose context is empty, or has only keys
\* the engine does not recognize, scores every record 0 and returns the empty
\* sequence.
C13_NoKeysNoRecommendation ==
    (Recommended /\ NoRecognizedKey) =>
        /\ \A i \in 1..Len(use_cases) : RecommendScoreOf(i) = 0
        /\ result = <<>>

\* a request with one unrecognized key over a catalog with a beginner record
C13_Witness ==
    /\ Recommended
    /\ NoRecognizedKey
    /\ Context.other # <<>>
    /\ \E i \in 1..Len(use_cases) : use_cases[i].complexity = "beginner"
    /\ result = <<>>

\* the challenges of the context
ChallengesOf == IF Context.challenges = None THEN <<>> ELSE Context.challenges[1]

\* what the challenges add to the score of catalog record i
ChallengePart(i) == ChallengesStep(use_cases[i], Context, 0)

\* challenge k is a case-insensitive substring of the description of record i
InDescription(i, k) ==
    Contains(Lower(use_cases[i].description), Lower(ChallengesOf[k]))

\* challenge k is a case-insensitive substring of benefit j of record i
InBenefit(i, k, j) ==
    Contains(Lower(use_cases[i].benefits[j]), Lower(ChallengesOf[k]))

ChallengesInDescription(i) == {k \in 1..Len(ChallengesOf) : InDescription(i, k)}

ChallengeBenefitPairs(i) ==
    {kj \in (1..Len(ChallengesOf)) \X (1..Len(use_cases[i].benefits)) :
        InBenefit(i, kj[1], kj[2])}

\* C14 as stated: the description part is 4.0 if at least one challenge is in
\* the description and 0 otherwise, and 2.0 is added per benefit only for a
\* challenge that is in the description.
C14_DescriptionOnceBenefitsNested ==
    Recommended =>
        \A i \in 1..Len(use_cases) :
            ChallengePart(i)
                = (IF ChallengesInDescription(i) # {} THEN Pt(4) ELSE 0)
                  + Pt(2) * Cardinality({kj \in ChallengeBenefitPairs(i) :
                                            InDescription(i, kj[1])})

\* C14, amended: the description part is 4.0 for each challenge that is in the
\* description, and 2.0 is added for each pair of a challenge and a benefit
\* that contains it, whether or not the challenge is in the description.
C14_DescriptionEachBenefitsAlways ==
    Recommended =>
        \A i \in 1..Len(use_cases) :
            ChallengePart(i)
                = Pt(4) * Cardinality(ChallengesInDescription(i))
                  + Pt(2) * Cardinality(ChallengeBenefitPairs(i))

\* a request where two challenges are in one description and where a challenge
\* is in a benefit of a record whose description does not have it
C14_Witness ==
    /\ Recommended
    /\ \E i \in 1..Len(use_cases) : Cardinality(ChallengesInDescription(i)) = 2
    /\ \E i \in 1..Len(use_cases) :
          \E kj \in ChallengeBenefitPairs(i) : ~InDescription(i, kj[1])

AnalystCategories == {"variance_analysis", "financial_modeling"}

\* the context is {'role': 'analyst'}
AnalystOnly ==
    Context = UserContext(None, None, Some(analyst), None, <<>>)

\* C15: in the recommendation for the context {role: "analyst"} no record whose
\* category is outside variance analysis and financial modeling precedes a
\* record whose category is inside.
C15_AnalystCategoriesFirst ==
    (Recommended /\ AnalystOnly) =>
        \A k, l \in 1..Len(result) :
            k < l => ~(/\ result[k].category \notin AnalystCategories
                       /\ result[l].category \in AnalystCategories)

\* an analyst's request that returns a variance-analysis record which sits in
\* the catalog after a record of another category
C15_Witness ==
    /\ Recommended
    /\ AnalystOnly
    /\ result # <<>>
    /\ result[1].category \in AnalystCategories
    /\ \E i, j \in 1..Len(use_cases) :
          /\ i < j
          /\ use_cases[i].category \notin AnalystCategories
          /\ use_cases[j] = result[1]

\* the scores of the catalog records, by position
RecommendScores == [i \in 1..Len(use_cases) |-> RecommendScoreOf(i)]

\* the catalog position of a record (ids are unique)
PositionOf(r) == CHOOSE i \in 1..Len(use_cases) : use_cases[i] = r

\* res holds only records scoring above 0, in descending order of score, at
\* most RecommendLimit of them, all of them when that few score above 0 and
\* otherwise none scoring below a record that is left out
TopRanked(scores, res) ==
    LET pos == [k \in 1..Len(res) |-> PositionOf(res[k])]
        positive == {i \in 1..Len(use_cases) : scores[i] > 0}
    IN  /\ \A k \in 1..Len(res) : res[k] \in ToSet(use_cases) /\ scores[pos[k]] > 0
        /\ \A k, l \in 1..Len(res) : k < l => scores[pos[k]] >= scores[pos[l]]
        /\ \A k, l \in 1..Len(res) : k # l => pos[k] # pos[l]
        /\ Len(res) <= RecommendLimit
        /\ Len(res) = IF Cardinality(positive) > RecommendLimit
                      THEN RecommendLimit ELSE Cardinality(positive)
        /\ \A i \in positive :
              (\A k \in 1..Len(res) : pos[k] # i) =>
                  \A k \in 1..Len(res) : scores[pos[k]] >= scores[i]

\* C16: for every context the recommendation holds only records whose score is
\* above 0, ordered by descending score, at most 10 of them, and exactly the 10
\* highest-ranked when more than 10 score above 0.
C16_RecommendTopTen ==
    Recommended => TopRanked(RecommendScores, result)

\* a request where more than ten records score above 0, not all the same
C16_Witness ==
    /\ Recommended
    /\ Cardinality({i \in 1..Len(use_cases) : RecommendScoreOf(i) > 0}) > RecommendLimit
    /\ Len(result) = RecommendLimit
    /\ RecommendScoreOf(PositionOf(result[1])) > RecommendScoreOf(PositionOf(result[Len(result)]))

(***************************************************************************)
(* Claims about search_by_prompt.                                          *)
(***************************************************************************)
PromptCalled == call.op = "search_by_prompt"

Task == call.args.task_description

\* the positions in key_phrases of the phrases that are case-insensitive
\* substrings of the task description
PhrasesIn(text) ==
    {k \in 1..Len(key_phrases) : Contains(Lower(text), key_phrases[k])}

\* C17: when the text contains none of the known phrases, search_by_prompt
\* returns exactly the sequence search returns for the text with no filters
\* and the default limit.
C17_NoPhraseFallsBackToSearch ==
    (PromptCalled /\ PhrasesIn(Task) = {}) =>
        result = search(use_cases, Task, None, None, DefaultLimit)

\* a text without a known phrase for which search returns more than a phrase
\* search would
C17_Witness ==
    /\ PromptCalled
    /\ PhrasesIn(Task) = {}
    /\ Task # empty
    /\ Len(result) > PhraseLimit

\* what search(phrase, limit=5) returns for phrase k of key_phrases
PhraseSearch(k) == search(use_cases, key_phrases[k], None, None, PhraseLimit)

\* the entries of a result sequence for the record with the id
EntriesOf(results, id) == {j \in 1..Len(results) : results[j].use_case.id = id}

\* the score a result sequence holds for the record with the id, 0 if none
ScoreIn(results, id) ==
    IF EntriesOf(results, id) = {} THEN 0
    ELSE results[CHOOSE j \in EntriesOf(results, id) : TRUE].relevance_score

\* the sum over the phrases of S of the score the phrase search holds for the
\* record with the id
RECURSIVE PhraseSum(_, _)
PhraseSum(S, id) ==
    IF S = {} THEN 0
    ELSE LET k == CHOOSE k \in S : TRUE
         IN  ScoreIn(PhraseSearch(k), id) + PhraseSum(S \ {k}, id)

\* C18: when at least one phrase is found, the score of every merged result
\* is the exact sum of the record's scores over the found phrases p for which
\* it is in search(p, limit=5); a record in one such search keeps that score.
C18_MergedScoreIsSum ==
    (PromptCalled /\ PhrasesIn(Task) # {}) =>
        \A k \in 1..Len(result) :
            result[k].relevance_score
                = PhraseSum(PhrasesIn(Task), result[k].use_case.id)

\* a merged result with a record found for two phrases and a record found for
\* one phrase only
C18_Witness ==
    /\ PromptCalled
    /\ \E k \in 1..Len(result) :
          Cardinality({p \in PhrasesIn(Task) :
                          EntriesOf(PhraseSearch(p), result[k].use_case.id) # {}}) = 2
    /\ \E k \in 1..Len(result) :
          Cardinality({p \in PhrasesIn(Task) :
                          EntriesOf(PhraseSearch(p), result[k].use_case.id) # {}}) = 1

\* the positions of budget and automate in key_phrases
BudgetAt == CHOOSE k \in 1..Len(key_phrases) : key_phrases[k] = budget
AutomateAt == CHOOSE k \in 1..Len(key_phrases) : key_phrases[k] = phrase_automate

\* catalog record i has a positive search score for phrase k
Matches(i, k) ==
    _calculate_relevance(use_cases[i], QueryLower(key_phrases[k]),
                         QueryKeywords(key_phrases[k])).score > 0

\* C19 as stated: for "how to automate budget consolidation" the detected
\* phrases are exactly budget and automate, and a returned record that matches
\* both phrases has a strictly higher accumulated score than any returned
\* record that matches only one.
C19_BothPhrasesAboveOne ==
    (PromptCalled /\ Task = HowToAutomate) =>
        /\ PhrasesIn(Task) = {BudgetAt, AutomateAt}
        /\ \A k, l \in 1..Len(result) :
              (/\ Matches(CatalogPos(result[k]), BudgetAt)
               /\ Matches(CatalogPos(result[k]), AutomateAt)
               /\ Matches(CatalogPos(result[l]), BudgetAt)
                      # Matches(CatalogPos(result[l]), AutomateAt))
                  => result[k].relevance_score > result[l].relevance_score

\* C19, amended: the detected phrases are exactly budget and automate, in this
\* order, and a record that both phrase searches return has a strictly higher
\* accumulated score than any record that only one of them returns, for a
\* phrase where it does not score below that record.
C19_InBothAboveOneItMatches ==
    (PromptCalled /\ Task = HowToAutomate) =>
        /\ FoundPhrases(Task) = <<budget, phrase_automate>>
        /\ \A i \in 1..Len(use_cases) :
              (/\ EntriesOf(PhraseSearch(BudgetAt), use_cases[i].id) # {}
               /\ EntriesOf(PhraseSearch(AutomateAt), use_cases[i].id) # {})
                  => /\ EntriesOf(result, use_cases[i].id) # {}
                     /\ \A l \in 1..Len(result) :
                           \A p \in {BudgetAt, AutomateAt} :
                               (/\ EntriesOf(PhraseSearch(p), result[l].use_case.id) # {}
                                /\ \E q \in {BudgetAt, AutomateAt} :
                                      EntriesOf(PhraseSearch(q), result[l].use_case.id) = {}
                                /\ ScoreIn(PhraseSearch(p), use_cases[i].id)
                                       >= ScoreIn(PhraseSearch(p), result[l].use_case.id))
                                   => ScoreIn(result, use_cases[i].id)
                                          > result[l].relevance_score

\* the request over a catalog where one record is returned for both phrases
\* and another for one phrase, with no higher score for it
C19_Witness ==
    /\ PromptCalled
    /\ Task = HowToAutomate
    /\ \E k, l \in 1..Len(result) :
          /\ EntriesOf(PhraseSearch(BudgetAt), result[k].use_case.id) # {}
          /\ EntriesOf(PhraseSearch(AutomateAt), result[k].use_case.id) # {}
          /\ EntriesOf(PhraseSearch(BudgetAt), result[l].use_case.id) # {}
          /\ EntriesOf(PhraseSearch(AutomateAt), result[l].use_case.id) = {}
          /\ ScoreIn(PhraseSearch(BudgetAt), result[k].use_case.id)
                 >= ScoreIn(PhraseSearch(BudgetAt), result[l].use_case.id)
          /\ result[k].relevance_score > result[l].relevance_score

\* C20: for every text the sequence search_by_prompt returns is in descending
\* order of accumulated score, has at most 10 entries and holds each record id
\* at most once.
C20_PromptResultOrderedUnique ==
    PromptCalled =>
        /\ \A k, l \in 1..Len(result) :
              k < l => result[k].relevance_score >= result[l].relevance_score
        /\ Len(result) <= PromptLimit
        /\ \A k, l \in 1..Len(result) :
              k # l => result[k].use_case.id # result[l].use_case.id

\* a merged result of ten entries, cut from more records than that, with
\* different scores and a record found for two phrases
C20_Witness ==
    /\ PromptCalled
    /\ PhrasesIn(Task) # {}
    /\ Len(result) = PromptLimit
    /\ Cardinality({i \in 1..Len(use_cases) :
                       \E p \in PhrasesIn(Task) :
                           EntriesOf(PhraseSearch(p), use_cases[i].id) # {}}) > PromptLimit
    /\ result[1].relevance_score > result[Len(result)].relevance_score
    /\ \E k \in 1..Len(result) :
          Cardinality({p \in PhrasesIn(Task) :
                          EntriesOf(PhraseSearch(p), result[k].use_case.id) # {}}) > 1

\* the found phrases whose phrase search holds the record with the id
PhrasesHolding(id) ==
    {p \in PhrasesIn(Task) : EntriesOf(PhraseSearch(p), id) # {}}

\* the first of them, in the order of key_phrases
FirstPhraseHolding(id) ==
    CHOOSE p \in PhrasesHolding(id) : \A q \in PhrasesHolding(id) : p <= q

\* the matched fields a result sequence holds for the record with the id
FieldsIn(results, id) ==
    results[CHOOSE j \in EntriesOf(results, id) : TRUE].matched_fields

\* C26: when at least one phrase is found, the matched fields of every result
\* of search_by_prompt are those of the first found phrase, in the order of
\* the phrase list, whose search(p, limit=5) holds the record; later phrases
\* add their scores but not their fields.
C26_FieldsOfFirstPhrase ==
    (PromptCalled /\ PhrasesIn(Task) # {}) =>
        \A k \in 1..Len(result) :
            /\ PhrasesHolding(result[k].use_case.id) # {}
            /\ result[k].matched_fields
                   = FieldsIn(PhraseSearch(FirstPhraseHolding(result[k].use_case.id)),
                              result[k].use_case.id)

\* a merged result for a record that a later phrase matched in a field the
\* first phrase did not, and whose score holds the later phrase's score
C26_Witness ==
    /\ PromptCalled
    /\ \E k \in 1..Len(result) :
          \E p \in PhrasesHolding(result[k].use_case.id) :
              /\ p # FirstPhraseHolding(result[k].use_case.id)
              /\ \E f \in ToSet(FieldsIn(PhraseSearch(p), result[k].use_case.id)) :
                    ~InList(f, result[k].matched_fields)
              /\ result[k].relevance_score
                     > ScoreIn(PhraseSearch(FirstPhraseHolding(result[k].use_case.id)),
                               result[k].use_case.id)

(***************************************************************************)
(* More claims about get_similar_use_cases.                                *)
(***************************************************************************)
\* the score a list of scored records holds for a record, 0 if it has none
ReceivedIn(scores, uc) ==
    IF \E k \in 1..Len(scores) : scores[k][1] = uc
    THEN scores[CHOOSE k \in 1..Len(scores) : scores[k][1] = uc][2]
    ELSE 0

\* the scored candidates of the lookup for catalog record s, before the sort
\* and the cut
CandidatesFor(s) == SimilarLoop(use_cases, 1, use_cases[s].id, use_cases[s], <<>>)

\* C28: the similarity score is symmetric: for two distinct catalog records A
\* and B, the score B receives in the lookup for A is the score A receives in
\* the lookup for B, so that B is a candidate for A exactly when A is one for B.
C28_SimilaritySymmetric ==
    SimilarCalled =>
        \A s \in SourcePositions :
            \A i \in 1..Len(use_cases) :
                i # s =>
                    ReceivedIn(CandidatesFor(s), use_cases[i])
                        = ReceivedIn(CandidatesFor(i), use_cases[s])

\* a lookup that returns a record with other tools than the source has, and
\* leaves out a record with other tools that has nothing in common with the
\* source
C28_Witness ==
    /\ SimilarCalled
    /\ \E s \in SourcePositions :
          /\ \E k \in 1..Len(result) :
                /\ ToSet(result[k].tools_used) # ToSet(use_cases[s].tools_used)
                /\ ReceivedIn(CandidatesFor(s), result[k]) > 0
          /\ \E i \in 1..Len(use_cases) :
                /\ i # s
                /\ ToSet(use_cases[i].tools_used) # ToSet(use_cases[s].tools_used)
                /\ ReceivedIn(CandidatesFor(s), use_cases[i]) = 0

(***************************************************************************)
(* More claims about get_recommended_use_cases.                            *)
(***************************************************************************)
\* what the role adds to the score of catalog record i
RolePart(i) == RoleStep(use_cases[i], Context, 0)

\* the keywords of role_category_map that the role of the context contains
KeywordsInRole ==
    IF Context.role = None THEN {}
    ELSE {k \in 1..Len(role_category_map) :
             Contains(Lower(Context.role[1]), role_category_map[k][1])}

\* C29: the role adds either 0 or exactly 5.0 to a record's score, for every
\* role string, also one that contains several role keywords; the category
\* sets mapped to the five keywords are pairwise disjoint.
C29_RolePartZeroOrFive ==
    Recommended =>
        /\ \A i \in 1..Len(use_cases) : RolePart(i) \in {0, Pt(5)}
        /\ \A k, l \in 1..Len(role_category_map) :
              k # l => ToSet(role_category_map[k][2])
                           \cap ToSet(role_category_map[l][2]) = {}

\* a request whose role holds three keywords, over a catalog with a record of
\* a category mapped to one of them and a record of a category mapped to none
C29_Witness ==
    /\ Recommended
    /\ Cardinality(KeywordsInRole) = 3
    /\ \E i \in 1..Len(use_cases) : RolePart(i) = Pt(5)
    /\ \E i \in 1..Len(use_cases) : RolePart(i) = 0

(***************************************************************************)
(* Claims about the indexes.                                               *)
(***************************************************************************)
Separators == Whitespace \cup {",", "."}

\* the tokens of a string: its longest runs of characters that are neither
\* white space nor a comma nor a period
TokensOf(s) ==
    {SubSeq(s, ab[1], ab[2]) :
        ab \in {ab \in (1..Len(s)) \X (1..Len(s)) :
                  /\ ab[1] <= ab[2]
                  /\ \A k \in ab[1]..ab[2] : s[k] \notin Separators
                  /\ ab[1] = 1 \/ s[ab[1] - 1] \in Separators
                  /\ ab[2] = Len(s) \/ s[ab[2] + 1] \in Separators}}

\* the keywords of catalog record i: the lower-case tokens of its title, its
\* description and its tags that are longer than 2 characters and no stopword
KeywordsOf(i) ==
    {t \in TokensOf(Lower(use_cases[i].title))
           \cup TokensOf(Lower(use_cases[i].description))
           \cup UNION {TokensOf(Lower(use_cases[i].tags[k])) :
                          k \in 1..Len(use_cases[i].tags)} :
        Len(t) > 2 /\ t \notin stopwords}

\* ids lists, in catalog order and each once, the ids of the records at the
\* positions of P
ListsInOrder(ids, P) ==
    /\ Len(ids) = Cardinality(P)
    /\ \A a \in 1..Len(ids) : \E i \in P : use_cases[i].id = ids[a]
    /\ \A a, b \in 1..Len(ids) :
          a < b => \E i, j \in P :
                       /\ i < j
                       /\ use_cases[i].id = ids[a]
                       /\ use_cases[j].id = ids[b]

IndexesHold(keywords, categories) ==
    /\ DOMAIN keywords = UNION {KeywordsOf(i) : i \in 1..Len(use_cases)}
    /\ \A k \in DOMAIN keywords :
          ListsInOrder(keywords[k], {i \in 1..Len(use_cases) : k \in KeywordsOf(i)})
    /\ DOMAIN categories = {use_cases[i].category : i \in 1..Len(use_cases)}
    /\ \A c \in DOMAIN categories :
          ListsInOrder(categories[c],
                       {i \in 1..Len(use_cases) : use_cases[i].category = c})

\* C25: after construction a record id is listed under a keyword in the
\* keyword index exactly when the keyword is one of the record's extracted
\* keywords, each id at most once per keyword and in catalog order; and the
\* category index lists under every category exactly the ids of its records,
\* in catalog order.
C25_IndexContents ==
    /\ keyword_index # None
    /\ category_index # None
    /\ IndexesHold(keyword_index[1], category_index[1])

\* an engine over two records of one category that share a keyword, one of
\* them with a stopword, a word of two letters and a keyword of its own
C25_Witness ==
    /\ Len(use_cases) = 2
    /\ use_cases[1].category = use_cases[2].category
    /\ keyword_index # None
    /\ \E k \in DOMAIN keyword_index[1] : Len(keyword_index[1][k]) = 2
    /\ \E k \in DOMAIN keyword_index[1] : Len(keyword_index[1][k]) = 1
    /\ \E i \in 1..2 :
          /\ TokensOf(Lower(use_cases[i].description)) \cap stopwords # {}
          /\ \E k \in 1..Len(use_cases[i].tags) :
                \E t \in TokensOf(Lower(use_cases[i].tags[k])) : Len(t) = 2

(***************************************************************************)
(* Claims about the engine over a sequence of calls.                       *)
(***************************************************************************)
\* a call has returned that is the remembered call made again
MadeAgain == call.op # "idle" /\ seen # None /\ call = seen[1].call

\* C21: a call of search, get_similar_use_cases, get_recommended_use_cases or
\* search_by_prompt made again with the same arguments, after any sequence of
\* other calls, returns the same sequence: the same records in the same order,
\* with the same scores and matched fields.
C21_SameCallSameResult ==
    MadeAgain => result = seen[1].result

\* a call made again after a different call, returning records
C21_Witness ==
    /\ MadeAgain
    /\ seen[1].between
    /\ Len(result) > 1
    /\ result = seen[1].result

\* C27: no call changes the catalog or the keyword and category indexes of the
\* engine; they stay what they were right after construction.
C27_CallsLeaveEngineAlone ==
    [][/\ use_cases' = use_cases
       /\ keyword_index' = keyword_index
       /\ category_index' = category_index]_vars

\* the engine as constructed, after a call that followed other calls and
\* returned records of a catalog of two
C27_Witness ==
    /\ call.op # "idle"
    /\ seen # None
    /\ seen[1].between
    /\ Len(use_cases) = 2
    /\ result # <<>>
    /\ Built

\* C23: over a catalog of zero records the engine is constructed, with empty
\* indexes, and search, get_similar_use_cases, get_recommended_use_cases and
\* search_by_prompt return the empty sequence for every argument.
C23_EmptyCatalogEmptyResults ==
    use_cases = <<>> =>
        /\ keyword_index = Some(EmptyDict)
        /\ category_index = Some(EmptyDict)
        /\ call.op # "idle" => result = <<>>
        /\ \A id \in {UnknownId, Id(1)}, l \in SimilarLimits :
              get_similar_use_cases(use_cases, id, l) = <<>>
        /\ \A q \in SearchQueries, c \in CategoryFilters,
              x \in ComplexityFilters, l \in Limits :
              search(use_cases, q, c, x, l) = <<>>
        /\ \A user_context \in Contexts :
              get_recommended_use_cases(use_cases, user_context) = <<>>
        /\ \A task_description \in PromptTexts :
              search_by_prompt(use_cases, task_description) = <<>>

\* a call that returned from the engine over the empty catalog, after a
\* different call
C23_Witness ==
    /\ use_cases = <<>>
    /\ keyword_index = Some(EmptyDict)
    /\ call.op = "search_by_prompt"
    /\ seen # None
    /\ seen[1].call.op # "search_by_prompt"
    /\ result = <<>>

\* C22: a call returns the same sequence whether the keyword and category
\* indexes are as built, emptied, deleted or rebuilt: the result of a call made
\* again equals the result it had under other indexes, and a search returns
\* what the scan of the whole catalog returns.
IndexesNow == <<keyword_index, category_index>>

\* the scan of all records: the place of record i among the passing records
\* that score above 0, by score and then by position in the catalog
NaiveRank(i) ==
    1 + Cardinality({j \in Positive :
                        \/ ScoreFor(j) > ScoreFor(i)
                        \/ ScoreFor(j) = ScoreFor(i) /\ j < i})

\* the length of the scan's list after the cut at the limit of the call
NaiveLen ==
    LET n == Cardinality(Positive)
        l == call.args.limit
    IN  IF l >= 0 THEN (IF n < l THEN n ELSE l)
        ELSE (IF n + l > 0 THEN n + l ELSE 0)

C22_IndexesDoNotMatter ==
    /\ (MadeAgain /\ IndexesNow # seen[1].indexes) => result = seen[1].result
    /\ Searched =>
          /\ Len(result) = NaiveLen
          /\ \A k \in 1..Len(result) :
                \E i \in Positive :
                    /\ NaiveRank(i) = k
                    /\ result[k].use_case = use_cases[i]
                    /\ result[k].relevance_score = ScoreFor(i)

\* a search made again with the indexes deleted, and a non-empty result
C22_Witness ==
    /\ MadeAgain
    /\ call.op = "search"
    /\ seen[1].indexes = <<Some(BuiltKeywordIndex(use_cases)),
                           Some(BuiltCategoryIndex(use_cases))>>
    /\ keyword_index = None
    /\ category_index = None
    /\ result # <<>>
    /\ result = seen[1].result

\* what the call k returns when it runs alone on the catalog
Alone(k) ==
    IF k.op = "search"
    THEN search(use_cases, k.args.query, k.args.categories, k.args.complexity,
                k.args.limit)
    ELSE IF k.op = "get_similar_use_cases"
    THEN get_similar_use_cases(use_cases, k.args.use_case_id, k.args.limit)
    ELSE IF k.op = "get_recommended_use_cases"
    THEN get_recommended_use_cases(use_cases, k.args.user_context)
    ELSE search_by_prompt(use_cases, k.args.task_description)

\* C24: with several callers on one engine whose calls interleave step by
\* step, every finished call has the result the same call returns when it runs
\* alone, and the accumulator of a search_by_prompt call in progress holds
\* what the phrases that call has searched so far put into it.
C24_InterleavedAsAlone ==
    frames # <<>> =>
        \A c \in Callers :
            /\ frames.of[c].pc = "done" =>
                   frames.of[c].result = Alone(frames.of[c].call)
            /\ (frames.of[c].pc = "loop"
                    /\ frames.of[c].call.op = "search_by_prompt") =>
                   frames.combined_results[c] =
                       PhrasesLoop(use_cases,
                                   SubSeq(frames.of[c].found_phrases, 1,
                                          frames.of[c].i - 1),
                                   1, <<>>)

\* two search_by_prompt calls whose phrase loops interleaved, both finished,
\* with an entry that two phrases returned
C24_Witness ==
    /\ frames # <<>>
    /\ \A c \in Callers :
          /\ frames.of[c].pc = "done"
          /\ frames.of[c].call.op = "search_by_prompt"
          /\ frames.mixed[c]
          /\ frames.of[c].result # <<>>
    /\ \E k \in 1..Len(frames.of[1].result) :
          frames.of[1].result[k].relevance_score >
              ScoreIn(search(use_cases, api, None, None, PhraseLimit),
                      frames.of[1].result[k].use_case.id)

\* the line is a word of W in any case between two runs of blanks
TrimmedIn(text, W) ==
    \E a, b \in 1..Len(text) :
        /\ Lower(SubSeq(text, a, b)) \in W
        /\ \A j \in 1..Len(text) : (j < a \/ j > b) => text[j] = " "

Blank(text) == \A j \in 1..Len(text) : text[j] = " "

\* C30: a pass of the interactive loop leaves the loop exactly when the line
\* read is quit, exit or q, in any case and between blanks, or when a
\* KeyboardInterrupt occurs while reading or handling; a blank line is skipped
\* without a command being run, and any other exception, the EOFError of the
\* end of the input stream included, is reported and the loop prompts again.
C30_LeavesOnQuitOrInterrupt ==
    [][loop.pc \in {"prompt", "command"} =>
          /\ loop'.pc = "left" <=>
                \/ loop'.event = Raised("KeyboardInterrupt")
                \/ /\ loop.pc = "prompt"
                   /\ loop'.event[1] = "line"
                   /\ TrimmedIn(loop'.event[2], QuitWords)
          /\ (loop.pc = "prompt" /\ loop'.event[1] = "line"
                 /\ Blank(loop'.event[2])) =>
                /\ loop'.pc = "prompt"
                /\ loop'.reported = None
                /\ call' = call
          /\ (loop'.event[1] = "raised"
                 /\ loop'.event[2] # "KeyboardInterrupt") =>
                /\ loop'.pc = "prompt"
                /\ loop'.reported = Some(loop'.event[2])]_vars

\* the end of the input stream was reported after a command had run, and the
\* loop prompts again
C30_Witness ==
    /\ loop.pc = "prompt"
    /\ loop.event = Raised("EOFError")
    /\ loop.reported = Some("EOFError")
    /\ call.op = "search"
    /\ result # <<>>
====
